---- MODULE Spec2Model ----
(***************************************************************************)
(* Model of the feedr social backend: the follow graph and its pending     *)
(* request overlay, the denormalized engagement counters, post visibility, *)
(* the merged home feed and the notification fan-out.                      *)
(*                                                                         *)
(* The relational store is the record db (one field per table).  A request *)
(* handler is an operator that reads the store through its SQLAlchemy      *)
(* session and yields a "unit of work": the HTTP status and body, the rows *)
(* the session will INSERT / DELETE and the absolute column values it will *)
(* UPDATE at flush, and the push jobs it handed to the queue.  Finish      *)
(* flushes and commits that unit of work against the store (get_db).       *)
(***************************************************************************)
EXTENDS Integers, Sequences, FiniteSets, Bags, TLC

VARIABLES
    db,          \* the committed relational store
    push_queue,  \* jobs handed to send_push_notification.delay, in order
    response,    \* the response of the handler that ran last
    pc,          \* per in-flight request: where its handler stands
    sess         \* per in-flight request: its session (loaded rows, unit of work)

vars == <<db, push_queue, response, pc, sess>>

----------------------------------------------------------------------------
(* Bounds of the model *)

NumUsers == 3
MaxNotifs == 2
MaxPushes == 3
MaxComments == 2
NumRequests == 2
MaxSkip == 1
MaxLimit == 2
MaxFeedItems == 5
MaxWritten == 3
MaxInbox == 3
MaxReposts == 2

Users == 1..NumUsers
\* an id that names no row (a 404 target), and the NULL of a nullable column
GhostId == NumUsers + 1
NULL == 0

Visibilities == {"public", "private", "followers_only"}
WhoCanComment == {"everyone", "people_you_follow", "no_one"}

----------------------------------------------------------------------------
(* Rows *)

\* app/models/user.py: the columns the handlers read and write
UserRow(priv, wcc) ==
    [is_private |-> priv, who_can_comment |-> wcc,
     followers_count |-> 0, following_count |-> 0]

\* the texts of the profile of user id, as numbers other than NULL
Username(id) == 10 + id
DisplayName(id) == 20 + id
Bio(id) == 30 + id
AvatarUrl(id) == 40 + id

\* app/models/user.py: a row with its profile columns (NULL: none given)
UserProfile(id, priv, display_name, is_verified) ==
    [is_private |-> priv, who_can_comment |-> "everyone",
     followers_count |-> 0, following_count |-> 0,
     username |-> Username(id), display_name |-> display_name,
     bio |-> Bio(id), avatar_url |-> AvatarUrl(id),
     is_verified |-> is_verified]

\* app/models/notification.py
NotificationRow(user_id, actor_id, type, post_id, clip_id, comment_id) ==
    [user_id |-> user_id, actor_id |-> actor_id, type |-> type,
     target_post_id |-> post_id, target_clip_id |-> clip_id,
     target_comment_id |-> comment_id, is_read |-> FALSE]

\* app/models/engagement.py: Like (polymorphic target, no uniqueness constraint)
LikeRow(user_id, post_id, clip_id, comment_id) ==
    [user_id |-> user_id, post_id |-> post_id, clip_id |-> clip_id,
     comment_id |-> comment_id]

\* app/models/post.py (created_at is stamped by the flush that inserts the row)
PostRow(user_id, visibility) ==
    [user_id |-> user_id, visibility |-> visibility, likes_count |-> 0,
     comments_count |-> 0, reposts_count |-> 0, created_at |-> NULL]

\* app/models/clip.py
ClipRow(user_id) ==
    [user_id |-> user_id, comments_count |-> 0, views_count |-> 0]

\* app/models/comment.py: exactly one of post_id, clip_id is set
CommentRow(user_id, post_id, clip_id, parent_id) ==
    [user_id |-> user_id, post_id |-> post_id, clip_id |-> clip_id,
     parent_id |-> parent_id, likes_count |-> 0]

\* app/models/engagement.py: Repost
RepostRow(user_id, post_id) ==
    [user_id |-> user_id, post_id |-> post_id, created_at |-> NULL]

\* the store right after the schema migrations, with the given users
EmptyDb(users) ==
    [users |-> users,
     follows |-> {},            \* Follow rows: <<follower_id, following_id>> (primary key)
     follow_requests |-> {},    \* FollowRequest rows: <<requester_id, target_id>> (primary key)
     posts |-> <<>>,            \* Post rows, id = index
     clips |-> <<>>,            \* Clip rows, id = index
     comments |-> <<>>,         \* Comment rows, id = index
     likes |-> EmptyBag,        \* Like rows (a bag: the table has no unique constraint)
     reposts |-> <<>>,          \* Repost rows, id = index
     notifications |-> <<>>,    \* Notification rows, id = index
     clock |-> 0]               \* datetime.utcnow of the latest row

----------------------------------------------------------------------------
(* The session's unit of work *)

\* nothing pending: no INSERT, no DELETE, no UPDATE
EmptyPlan ==
    [ins_follows |-> {}, ins_requests |-> {}, del_requests |-> {},
     followers_count |-> <<>>, following_count |-> <<>>,
     del_follows |-> {}, is_private |-> <<>>,
     ins_likes |-> EmptyBag, del_likes |-> EmptyBag,
     post_likes_count |-> <<>>, post_comments_count |-> <<>>,
     post_reposts_count |-> <<>>,
     comment_likes_count |-> <<>>,
     clip_comments_count |-> <<>>, clip_views_count |-> <<>>,
     ins_posts |-> <<>>, ins_clips |-> <<>>, ins_comments |-> <<>>,
     ins_reposts |-> <<>>,
     ins_notifications |-> <<>>, read_notifications |-> {}]

\* what a handler leaves behind when it returns or raises
Work(status, body, plan, push) ==
    [status |-> status, body |-> body, plan |-> plan, push |-> push]

\* raise HTTPException(status_code): nothing pending, get_db rolls back
HttpError(status) == Work(status, [detail |-> "error"], EmptyPlan, <<>>)

\* return without touching the session
Return(body) == Work(200, body, EmptyPlan, <<>>)

\* a column UPDATE: the value the ORM attribute holds replaces the stored one
SetCol(old, new) == IF new = <<>> THEN old ELSE new[1]
Upd(id, v) == id :> v
Assigned(f, id) == IF id \in DOMAIN f THEN <<f[id]>> ELSE <<>>

----------------------------------------------------------------------------
(* get_db: flush and commit, or roll back *)

\* the flush hits a constraint of the store: a primary key that exists
\* (follows, follow_requests) or a foreign key that names no row
IntegrityError(d, plan) ==
    \/ plan.ins_follows \cap d.follows # {}
    \/ plan.ins_requests \cap d.follow_requests # {}
    \/ \E i \in DOMAIN plan.ins_comments :
          /\ plan.ins_comments[i].parent_id # NULL
          /\ plan.ins_comments[i].parent_id \notin DOMAIN d.comments

\* rows inserted now: created_at = datetime.utcnow, later than every row before
Stamp(rows, clock) ==
    [i \in DOMAIN rows |-> [rows[i] EXCEPT !.created_at = clock + i]]

\* the flush: INSERTs, UPDATEs with the session's values, DELETEs
Flush(d, plan) ==
    [d EXCEPT
       !.users = [u \in DOMAIN d.users |->
           [d.users[u] EXCEPT
              !.followers_count = SetCol(@, Assigned(plan.followers_count, u)),
              !.following_count = SetCol(@, Assigned(plan.following_count, u)),
              !.is_private = SetCol(@, Assigned(plan.is_private, u))]],
       !.follows = (@ \cup plan.ins_follows) \ plan.del_follows,
       !.follow_requests = (@ \cup plan.ins_requests) \ plan.del_requests,
       !.posts = [p \in DOMAIN d.posts |->
           [d.posts[p] EXCEPT
              !.likes_count = SetCol(@, Assigned(plan.post_likes_count, p)),
              !.comments_count = SetCol(@, Assigned(plan.post_comments_count, p)),
              !.reposts_count = SetCol(@, Assigned(plan.post_reposts_count, p))]]
           \o Stamp(plan.ins_posts, d.clock),
       !.clips = [c \in DOMAIN d.clips |->
           [d.clips[c] EXCEPT
              !.comments_count = SetCol(@, Assigned(plan.clip_comments_count, c)),
              !.views_count = SetCol(@, Assigned(plan.clip_views_count, c))]]
           \o plan.ins_clips,
       !.comments = [c \in DOMAIN d.comments |->
           [d.comments[c] EXCEPT
              !.likes_count = SetCol(@, Assigned(plan.comment_likes_count, c))]]
           \o plan.ins_comments,
       !.likes = (@ (+) plan.ins_likes) (-) plan.del_likes,
       !.reposts = @ \o Stamp(plan.ins_reposts, d.clock + Len(plan.ins_posts)),
       !.notifications = [n \in DOMAIN d.notifications |->
           [d.notifications[n] EXCEPT
              !.is_read = @ \/ n \in plan.read_notifications]]
           \o plan.ins_notifications,
       !.clock = @ + Len(plan.ins_posts) + Len(plan.ins_reposts)]

----------------------------------------------------------------------------
(* app/api/deps.py *)

\* get_current_user: the caller's User row as loaded into the session
get_current_user(d, id) == [id |-> id, row |-> d.users[id]]

\* get_current_user_optional: None (id NULL) without credentials
get_current_user_optional(d, id) ==
    IF id = NULL THEN [id |-> NULL] ELSE get_current_user(d, id)

----------------------------------------------------------------------------
(* app/services/notification_service.py *)

\* create_notification without its self-notification guard
create_notification_unguarded(user_id, actor_id, type, post_id, clip_id, comment_id) ==
    [rows |-> <<NotificationRow(user_id, actor_id, type, post_id, clip_id, comment_id)>>,
     push |-> <<[user_id |-> user_id, actor_id |-> actor_id, type |-> type]>>]

\* create_notification: the row added to the session and the job queued
create_notification(user_id, actor_id, type, post_id, clip_id, comment_id) ==
    IF user_id = actor_id
    THEN [rows |-> <<>>, push |-> <<>>]
    ELSE [rows |-> <<NotificationRow(user_id, actor_id, type, post_id, clip_id, comment_id)>>,
          push |-> <<[user_id |-> user_id, actor_id |-> actor_id, type |-> type]>>]

\* get_unread_count: SELECT count(id) WHERE user_id = :user_id AND is_read = false
get_unread_count(d, user_id) ==
    Cardinality({n \in DOMAIN d.notifications :
                    d.notifications[n].user_id = user_id /\ ~d.notifications[n].is_read})

\* GET /notifications/unread-count
unread_count(d, current_user) ==
    Return([count |-> get_unread_count(d, current_user.id)])

\* mark_all_read whose UPDATE does not compare the owner
mark_all_read_of_every_user(d, user_id) ==
    {n \in DOMAIN d.notifications : ~d.notifications[n].is_read}

\* mark_all_read: UPDATE ... WHERE user_id = :user_id AND is_read = false
mark_all_read(d, user_id) ==
    {n \in DOMAIN d.notifications :
        d.notifications[n].user_id = user_id /\ ~d.notifications[n].is_read}

\* mark_one_read that does not compare the owner of the notification
mark_one_read_of_any_owner(d, user_id, notification_id) ==
    {n \in DOMAIN d.notifications :
        n = notification_id /\ ~d.notifications[n].is_read}

\* mark_one_read: the rows its UPDATE matches (rowcount = their number)
mark_one_read(d, user_id, notification_id) ==
    {n \in DOMAIN d.notifications :
        /\ n = notification_id
        /\ d.notifications[n].user_id = user_id
        /\ ~d.notifications[n].is_read}

\* POST /notifications/mark-all-read
mark_all_as_read(d, current_user) ==
    LET rows == mark_all_read(d, current_user.id)
    IN  Work(200, [updated |-> Cardinality(rows)],
             [EmptyPlan EXCEPT !.read_notifications = rows], <<>>)

\* PATCH /notifications/{notification_id}/read
mark_one_as_read(d, current_user, notification_id) ==
    LET rows == mark_one_read(d, current_user.id, notification_id)
    IN  Work(200, [updated |-> Cardinality(rows) > 0],
             [EmptyPlan EXCEPT !.read_notifications = rows], <<>>)

----------------------------------------------------------------------------
(* app/api/v1/endpoints/users.py: the follow graph *)

is_following(d, follower_id, following_id) ==
    <<follower_id, following_id>> \in d.follows

has_pending_request(d, requester_id, target_id) ==
    <<requester_id, target_id>> \in d.follow_requests

\* PATCH /users/me, the is_private field of UserUpdate (<<>>: None, <<b>>: b)
update_me(d, current_user, is_private) ==
    IF is_private = <<>>
    THEN Return([is_private |-> current_user.row.is_private])
    ELSE Work(200, [is_private |-> is_private[1]],
              [EmptyPlan EXCEPT !.is_private = Upd(current_user.id, is_private[1])], <<>>)

\* DELETE /users/me/followers/{user_id}
remove_follower(d, current_user, user_id) ==
    LET rowcount == IF <<user_id, current_user.id>> \in d.follows THEN 1 ELSE 0
    IN  IF rowcount > 0
        THEN Work(200, [removed |-> TRUE],
                  [EmptyPlan EXCEPT
                     !.del_follows = {<<user_id, current_user.id>>},
                     !.following_count =
                        IF user_id \in DOMAIN d.users /\ d.users[user_id].following_count > 0
                        THEN Upd(user_id, d.users[user_id].following_count - 1)
                        ELSE <<>>,
                     !.followers_count =
                        IF current_user.row.followers_count > 0
                        THEN Upd(current_user.id, current_user.row.followers_count - 1)
                        ELSE <<>>],
                  <<>>)
        ELSE Return([removed |-> TRUE])

\* POST /users/me/follow-requests/{requester_id}/accept
accept_follow_request(d, current_user, requester_id) ==
    IF requester_id = current_user.id THEN HttpError(400)
    ELSE IF ~has_pending_request(d, requester_id, current_user.id) THEN HttpError(404)
    ELSE IF requester_id \notin DOMAIN d.users THEN HttpError(404)
    ELSE LET n == create_notification(requester_id, current_user.id,
                                      "follow_request_accepted", NULL, NULL, NULL)
         IN  Work(200, [accepted |-> TRUE],
                  [EmptyPlan EXCEPT
                     !.del_requests = {<<requester_id, current_user.id>>},
                     !.ins_follows = {<<requester_id, current_user.id>>},
                     !.followers_count =
                        Upd(current_user.id, current_user.row.followers_count + 1),
                     !.following_count =
                        Upd(requester_id, d.users[requester_id].following_count + 1),
                     !.ins_notifications = n.rows],
                  n.push)

\* POST /users/me/follow-requests/{requester_id}/reject
reject_follow_request(d, current_user, requester_id) ==
    IF requester_id = current_user.id THEN HttpError(400)
    ELSE Work(200, [rejected |-> TRUE],
              [EmptyPlan EXCEPT !.del_requests = {<<requester_id, current_user.id>>}], <<>>)

\* follow_user that notifies the target again when the edge already exists
follow_user_notifying_again(d, current_user, user_id) ==
    IF user_id = current_user.id THEN HttpError(400)
    ELSE IF user_id \notin DOMAIN d.users THEN HttpError(404)
    ELSE IF is_following(d, current_user.id, user_id)
    THEN LET n == create_notification(user_id, current_user.id, "follow", NULL, NULL, NULL)
         IN  Work(200, [follows |-> TRUE, requested |-> FALSE],
                  [EmptyPlan EXCEPT !.ins_notifications = n.rows], n.push)
    ELSE IF d.users[user_id].is_private
    THEN IF has_pending_request(d, current_user.id, user_id)
         THEN Return([follows |-> FALSE, requested |-> TRUE])
         ELSE LET n == create_notification(user_id, current_user.id,
                                           "follow_request", NULL, NULL, NULL)
              IN  Work(200, [follows |-> FALSE, requested |-> TRUE],
                       [EmptyPlan EXCEPT
                          !.ins_requests = {<<current_user.id, user_id>>},
                          !.ins_notifications = n.rows],
                       n.push)
    ELSE LET n == create_notification(user_id, current_user.id, "follow", NULL, NULL, NULL)
         IN  Work(200, [follows |-> TRUE, requested |-> FALSE],
                  [EmptyPlan EXCEPT
                     !.ins_follows = {<<current_user.id, user_id>>},
                     !.followers_count = Upd(user_id, d.users[user_id].followers_count + 1),
                     !.following_count =
                        Upd(current_user.id, current_user.row.following_count + 1),
                     !.ins_notifications = n.rows],
                  n.push)

\* follow_user that does not look at the target's is_private
follow_user_ignoring_privacy(d, current_user, user_id) ==
    IF user_id = current_user.id THEN HttpError(400)
    ELSE IF user_id \notin DOMAIN d.users THEN HttpError(404)
    ELSE IF is_following(d, current_user.id, user_id)
    THEN Return([follows |-> TRUE, requested |-> FALSE])
    ELSE LET n == create_notification(user_id, current_user.id, "follow", NULL, NULL, NULL)
         IN  Work(200, [follows |-> TRUE, requested |-> FALSE],
                  [EmptyPlan EXCEPT
                     !.ins_follows = {<<current_user.id, user_id>>},
                     !.followers_count = Upd(user_id, d.users[user_id].followers_count + 1),
                     !.following_count =
                        Upd(current_user.id, current_user.row.following_count + 1),
                     !.ins_notifications = n.rows],
                  n.push)

\* POST /users/{user_id}/follow
follow_user(d, current_user, user_id) ==
    IF user_id = current_user.id THEN HttpError(400)
    ELSE IF user_id \notin DOMAIN d.users THEN HttpError(404)
    ELSE IF is_following(d, current_user.id, user_id)
    THEN Return([follows |-> TRUE, requested |-> FALSE])
    ELSE IF d.users[user_id].is_private
    THEN IF has_pending_request(d, current_user.id, user_id)
         THEN Return([follows |-> FALSE, requested |-> TRUE])
         ELSE LET n == create_notification(user_id, current_user.id,
                                           "follow_request", NULL, NULL, NULL)
              IN  Work(200, [follows |-> FALSE, requested |-> TRUE],
                       [EmptyPlan EXCEPT
                          !.ins_requests = {<<current_user.id, user_id>>},
                          !.ins_notifications = n.rows],
                       n.push)
    ELSE LET n == create_notification(user_id, current_user.id, "follow", NULL, NULL, NULL)
         IN  Work(200, [follows |-> TRUE, requested |-> FALSE],
                  [EmptyPlan EXCEPT
                     !.ins_follows = {<<current_user.id, user_id>>},
                     !.followers_count = Upd(user_id, d.users[user_id].followers_count + 1),
                     !.following_count =
                        Upd(current_user.id, current_user.row.following_count + 1),
                     !.ins_notifications = n.rows],
                  n.push)

\* cancel_follow_request that deletes every request of the caller
cancel_follow_request_of_every_target(d, current_user, user_id) ==
    Work(200, [requested |-> FALSE],
         [EmptyPlan EXCEPT
            !.del_requests = {e \in d.follow_requests : e[1] = current_user.id}], <<>>)

\* DELETE /users/{user_id}/follow-request
cancel_follow_request(d, current_user, user_id) ==
    Work(200, [requested |-> FALSE],
         [EmptyPlan EXCEPT !.del_requests = {<<current_user.id, user_id>>}], <<>>)

\* unfollow_user without the decrement of the target's followers_count
unfollow_user_keeps_followers_count(d, current_user, user_id) ==
    IF <<current_user.id, user_id>> \in d.follows
    THEN Work(200, [follows |-> FALSE],
              [EmptyPlan EXCEPT
                 !.del_follows = {<<current_user.id, user_id>>},
                 !.following_count =
                    IF current_user.row.following_count > 0
                    THEN Upd(current_user.id, current_user.row.following_count - 1)
                    ELSE <<>>],
              <<>>)
    ELSE Return([follows |-> FALSE])

\* unfollow_user without the decrement of the caller's following_count
unfollow_user_keeps_following_count(d, current_user, user_id) ==
    IF <<current_user.id, user_id>> \in d.follows
    THEN Work(200, [follows |-> FALSE],
              [EmptyPlan EXCEPT
                 !.del_follows = {<<current_user.id, user_id>>},
                 !.followers_count =
                    IF user_id \in DOMAIN d.users /\ d.users[user_id].followers_count > 0
                    THEN Upd(user_id, d.users[user_id].followers_count - 1)
                    ELSE <<>>],
              <<>>)
    ELSE Return([follows |-> FALSE])

\* unfollow_user that decrements without looking whether the counter is > 0
unfollow_user_unclamped(d, current_user, user_id) ==
    IF <<current_user.id, user_id>> \in d.follows
    THEN Work(200, [follows |-> FALSE],
              [EmptyPlan EXCEPT
                 !.del_follows = {<<current_user.id, user_id>>},
                 !.followers_count =
                    IF user_id \in DOMAIN d.users
                    THEN Upd(user_id, d.users[user_id].followers_count - 1)
                    ELSE <<>>,
                 !.following_count =
                    Upd(current_user.id, current_user.row.following_count - 1)],
              <<>>)
    ELSE Return([follows |-> FALSE])

\* DELETE /users/{user_id}/follow
unfollow_user(d, current_user, user_id) ==
    LET rowcount == IF <<current_user.id, user_id>> \in d.follows THEN 1 ELSE 0
    IN  IF rowcount > 0
        THEN Work(200, [follows |-> FALSE],
                  [EmptyPlan EXCEPT
                     !.del_follows = {<<current_user.id, user_id>>},
                     !.followers_count =
                        IF user_id \in DOMAIN d.users /\ d.users[user_id].followers_count > 0
                        THEN Upd(user_id, d.users[user_id].followers_count - 1)
                        ELSE <<>>,
                     !.following_count =
                        IF current_user.row.following_count > 0
                        THEN Upd(current_user.id, current_user.row.following_count - 1)
                        ELSE <<>>],
                  <<>>)
        ELSE Return([follows |-> FALSE])

----------------------------------------------------------------------------
(* app/services/feed_service.py, app/api/v1/endpoints/posts.py: responses *)

\* select(User).where(User.id == id): the row with its key
load_user(d, id) ==
    [id |-> id, is_private |-> d.users[id].is_private,
     who_can_comment |-> d.users[id].who_can_comment,
     followers_count |-> d.users[id].followers_count,
     following_count |-> d.users[id].following_count]

\* select(Post).options(selectinload(Post.user)): the row, its key, its author
load_post(d, id) ==
    [id |-> id, user_id |-> d.posts[id].user_id, visibility |-> d.posts[id].visibility,
     likes_count |-> d.posts[id].likes_count,
     comments_count |-> d.posts[id].comments_count,
     reposts_count |-> d.posts[id].reposts_count,
     created_at |-> d.posts[id].created_at,
     user |-> load_user(d, d.posts[id].user_id)]

\* select(Comment).options(selectinload(Comment.user))
load_comment(d, id) ==
    [id |-> id, user_id |-> d.comments[id].user_id, parent_id |-> d.comments[id].parent_id,
     likes_count |-> d.comments[id].likes_count,
     user |-> load_user(d, d.comments[id].user_id)]

\* select(Repost).options(selectinload(Repost.user), selectinload(Repost.post))
load_repost(d, id) ==
    [id |-> id, user_id |-> d.reposts[id].user_id, post_id |-> d.reposts[id].post_id,
     created_at |-> d.reposts[id].created_at,
     user |-> load_user(d, d.reposts[id].user_id),
     post |-> load_post(d, d.reposts[id].post_id)]

\* post_to_response: the post's columns and its author as UserPublic
post_to_response(post, is_liked, is_following_author) ==
    [id |-> post.id, user_id |-> post.user_id, visibility |-> post.visibility,
     likes_count |-> post.likes_count, comments_count |-> post.comments_count,
     reposts_count |-> post.reposts_count, created_at |-> post.created_at,
     user |-> [id |-> post.user.id,
               followers_count |-> post.user.followers_count,
               following_count |-> post.user.following_count,
               who_can_comment |-> post.user.who_can_comment,
               is_following |-> is_following_author],
     is_liked |-> is_liked]

\* comment_to_response / _comment_to_response
comment_to_response(comment, is_liked) ==
    [id |-> comment.id, user_id |-> comment.user_id, parent_id |-> comment.parent_id,
     user |-> [id |-> comment.user.id,
               followers_count |-> comment.user.followers_count,
               following_count |-> comment.user.following_count],
     likes_count |-> comment.likes_count, is_liked |-> is_liked]

\* repost_to_response: the reposter and the original post, embedded
repost_to_response(repost) ==
    [id |-> repost.id, created_at |-> repost.created_at,
     reposter_user |-> [id |-> repost.user.id,
                        followers_count |-> repost.user.followers_count,
                        following_count |-> repost.user.following_count,
                        who_can_comment |-> repost.user.who_can_comment,
                        is_following |-> FALSE],
     original_post |-> post_to_response(repost.post, FALSE, FALSE)]

\* a body built after commit from the refreshed row: db.refresh(obj)
Refresh(kind, id, is_liked) == [refresh |-> kind, id |-> id, is_liked |-> is_liked]

\* the body the caller receives; `before` and `after` are the store around the commit
Resolve(before, after, body) ==
    IF "refresh" \notin DOMAIN body THEN body
    ELSE CASE body.refresh = "post" -> post_to_response(load_post(after, body.id), body.is_liked, FALSE)
           [] body.refresh = "comment" -> comment_to_response(load_comment(after, body.id), body.is_liked)
           [] body.refresh = "new_post" ->
                post_to_response(load_post(after, Len(before.posts) + 1), FALSE, FALSE)
           [] body.refresh = "new_comment" ->
                comment_to_response(load_comment(after, Len(before.comments) + 1), FALSE)
           [] body.refresh = "new_repost" ->
                repost_to_response(load_repost(after, Len(before.reposts) + 1))
           [] body.refresh = "clip_views" ->
                [views_count |-> after.clips[body.id].views_count]

----------------------------------------------------------------------------
(* app/api/v1/endpoints/posts.py, app/services/feed_service.py,            *)
(* app/services/repost_service.py: posts, likes, comments, reposts         *)

\* POST /posts -> feed_service.create_post
create_post(d, current_user, visibility) ==
    Work(201, Refresh("new_post", NULL, FALSE),
         [EmptyPlan EXCEPT !.ins_posts = <<PostRow(current_user.id, visibility)>>], <<>>)

\* like_post without the look-up of an existing Like row
like_post_always_inserting(d, current_user, post_id) ==
    IF post_id \notin DOMAIN d.posts THEN HttpError(404)
    ELSE LET post == d.posts[post_id]
             n == create_notification(post.user_id, current_user.id, "like",
                                      post_id, NULL, NULL)
         IN  Work(200, Refresh("post", post_id, TRUE),
                  [EmptyPlan EXCEPT
                     !.ins_likes = SetToBag({LikeRow(current_user.id, post_id, NULL, NULL)}),
                     !.post_likes_count = Upd(post_id, post.likes_count + 1),
                     !.ins_notifications = n.rows],
                  n.push)

\* POST /posts/{post_id}/like
like_post(d, current_user, post_id) ==
    IF post_id \notin DOMAIN d.posts THEN HttpError(404)
    ELSE LET post == d.posts[post_id]
             like == LikeRow(current_user.id, post_id, NULL, NULL)
             existing == CopiesIn(like, d.likes)
         IN  IF existing > 1 THEN HttpError(500)   \* scalar_one_or_none raises
             ELSE IF existing = 1
             THEN Return(post_to_response(load_post(d, post_id), TRUE, FALSE))
             ELSE LET n == create_notification(post.user_id, current_user.id, "like",
                                               post_id, NULL, NULL)
                  IN  Work(200, Refresh("post", post_id, TRUE),
                           [EmptyPlan EXCEPT
                              !.ins_likes = SetToBag({like}),
                              !.post_likes_count = Upd(post_id, post.likes_count + 1),
                              !.ins_notifications = n.rows],
                           n.push)

\* repost_post that answers a second repost of the same user with no new row
repost_post_once_per_user(d, current_user, post_id) ==
    IF post_id \notin DOMAIN d.posts THEN HttpError(404)
    ELSE IF \E i \in DOMAIN d.reposts :
               d.reposts[i].user_id = current_user.id /\ d.reposts[i].post_id = post_id
    THEN Return([reposted |-> TRUE])
    ELSE Work(201, Refresh("new_repost", NULL, FALSE),
              [EmptyPlan EXCEPT
                 !.ins_reposts = <<RepostRow(current_user.id, post_id)>>,
                 !.post_reposts_count = Upd(post_id, d.posts[post_id].reposts_count + 1)],
              <<>>)

\* POST /posts/{post_id}/repost -> repost_service.create_repost
repost_post(d, current_user, post_id) ==
    IF post_id \notin DOMAIN d.posts THEN HttpError(404)
    ELSE Work(201, Refresh("new_repost", NULL, FALSE),
              [EmptyPlan EXCEPT
                 !.ins_reposts = <<RepostRow(current_user.id, post_id)>>,
                 !.post_reposts_count = Upd(post_id, d.posts[post_id].reposts_count + 1)],
              <<>>)

\* max(0, x)
Max0(x) == IF x < 0 THEN 0 ELSE x

\* unlike_post that deletes the Like row and leaves likes_count alone
unlike_post_keeps_likes_count(d, current_user, post_id) ==
    IF post_id \notin DOMAIN d.posts THEN HttpError(404)
    ELSE Work(200, Refresh("post", post_id, FALSE),
              [EmptyPlan EXCEPT
                 !.del_likes = SetToBag({LikeRow(current_user.id, post_id, NULL, NULL)})],
              <<>>)

\* DELETE /posts/{post_id}/like
unlike_post(d, current_user, post_id) ==
    IF post_id \notin DOMAIN d.posts THEN HttpError(404)
    ELSE LET post == d.posts[post_id]
             like == LikeRow(current_user.id, post_id, NULL, NULL)
             existing == CopiesIn(like, d.likes)
         IN  IF existing > 1 THEN HttpError(500)   \* scalar_one_or_none raises
             ELSE IF existing = 1
             THEN Work(200, Refresh("post", post_id, FALSE),
                       [EmptyPlan EXCEPT
                          !.del_likes = SetToBag({like}),
                          !.post_likes_count = Upd(post_id, Max0(post.likes_count - 1))],
                       <<>>)
             ELSE Work(200, Refresh("post", post_id, FALSE), EmptyPlan, <<>>)

\* create_post_comment without the check of the author's who_can_comment
create_post_comment_open_to_all(d, current_user, post_id, parent_id) ==
    IF post_id \notin DOMAIN d.posts THEN HttpError(404)
    ELSE LET post == d.posts[post_id]
             notify_user_id ==
                 IF parent_id # NULL /\ parent_id \in DOMAIN d.comments
                 THEN d.comments[parent_id].user_id
                 ELSE post.user_id
             n == create_notification(notify_user_id, current_user.id, "comment",
                                      post_id, NULL, NULL)
         IN  Work(201, Refresh("new_comment", NULL, FALSE),
                  [EmptyPlan EXCEPT
                     !.ins_comments =
                        <<CommentRow(current_user.id, post_id, NULL, parent_id)>>,
                     !.post_comments_count = Upd(post_id, post.comments_count + 1),
                     !.ins_notifications = n.rows],
                  n.push)

\* POST /posts/{post_id}/comments; comment.id is unset until the flush, so the
\* notification built before the commit carries target_comment_id = None
create_post_comment(d, current_user, post_id, parent_id) ==
    IF post_id \notin DOMAIN d.posts THEN HttpError(404)
    ELSE LET post == d.posts[post_id]
             author == d.users[post.user_id]
         IN  IF author.who_can_comment = "no_one" /\ post.user_id # current_user.id
             THEN HttpError(403)
             ELSE LET notify_user_id ==
                          IF parent_id # NULL /\ parent_id \in DOMAIN d.comments
                          THEN d.comments[parent_id].user_id
                          ELSE post.user_id
                      n == create_notification(notify_user_id, current_user.id, "comment",
                                               post_id, NULL, NULL)
                  IN  Work(201, Refresh("new_comment", NULL, FALSE),
                           [EmptyPlan EXCEPT
                              !.ins_comments =
                                 <<CommentRow(current_user.id, post_id, NULL, parent_id)>>,
                              !.post_comments_count = Upd(post_id, post.comments_count + 1),
                              !.ins_notifications = n.rows],
                           n.push)

\* POST /posts/{post_id}/comments/{comment_id}/like
like_post_comment(d, current_user, post_id, comment_id) ==
    IF ~(comment_id \in DOMAIN d.comments /\ d.comments[comment_id].post_id = post_id)
    THEN HttpError(404)
    ELSE LET comment == d.comments[comment_id]
             like == LikeRow(current_user.id, NULL, NULL, comment_id)
             existing == CopiesIn(like, d.likes)
         IN  IF existing > 1 THEN HttpError(500)   \* scalar_one_or_none raises
             ELSE IF existing = 1
             THEN Return(comment_to_response(load_comment(d, comment_id), TRUE))
             ELSE LET n == create_notification(comment.user_id, current_user.id, "like",
                                               post_id, NULL, comment_id)
                  IN  Work(200, Refresh("comment", comment_id, TRUE),
                           [EmptyPlan EXCEPT
                              !.ins_likes = SetToBag({like}),
                              !.comment_likes_count =
                                 Upd(comment_id, comment.likes_count + 1),
                              !.ins_notifications = n.rows],
                           n.push)

\* DELETE /posts/{post_id}/comments/{comment_id}/like
unlike_post_comment(d, current_user, post_id, comment_id) ==
    IF ~(comment_id \in DOMAIN d.comments /\ d.comments[comment_id].post_id = post_id)
    THEN HttpError(404)
    ELSE LET comment == d.comments[comment_id]
             like == LikeRow(current_user.id, NULL, NULL, comment_id)
             existing == CopiesIn(like, d.likes)
         IN  IF existing > 1 THEN HttpError(500)   \* scalar_one_or_none raises
             ELSE IF existing = 1
             THEN Work(200, Refresh("comment", comment_id, FALSE),
                       [EmptyPlan EXCEPT
                          !.del_likes = SetToBag({like}),
                          !.comment_likes_count =
                             Upd(comment_id, Max0(comment.likes_count - 1))],
                       <<>>)
             ELSE Work(200, Refresh("comment", comment_id, FALSE), EmptyPlan, <<>>)

----------------------------------------------------------------------------
(* app/api/v1/endpoints/clips.py *)

\* POST /clips -> clip_service.create_clip
create_clip(d, current_user) ==
    Work(201, [user_id |-> current_user.id],
         [EmptyPlan EXCEPT !.ins_clips = <<ClipRow(current_user.id)>>], <<>>)

\* POST /clips/{clip_id}/view (no authentication)
record_clip_view(d, clip_id) ==
    IF clip_id \notin DOMAIN d.clips THEN HttpError(404)
    ELSE Work(200, Refresh("clip_views", clip_id, FALSE),
              [EmptyPlan EXCEPT
                 !.clip_views_count = Upd(clip_id, d.clips[clip_id].views_count + 1)],
              <<>>)

\* POST /clips/{clip_id}/comments
create_clip_comment(d, current_user, clip_id, parent_id) ==
    IF clip_id \notin DOMAIN d.clips THEN HttpError(404)
    ELSE LET clip == d.clips[clip_id]
             author == d.users[clip.user_id]
         IN  IF author.who_can_comment = "no_one" /\ clip.user_id # current_user.id
             THEN HttpError(403)
             ELSE LET notify_user_id ==
                          IF parent_id # NULL /\ parent_id \in DOMAIN d.comments
                          THEN d.comments[parent_id].user_id
                          ELSE clip.user_id
                      n == create_notification(notify_user_id, current_user.id, "comment",
                                               NULL, clip_id, NULL)
                  IN  Work(201, Refresh("new_comment", NULL, FALSE),
                           [EmptyPlan EXCEPT
                              !.ins_comments =
                                 <<CommentRow(current_user.id, NULL, clip_id, parent_id)>>,
                              !.clip_comments_count = Upd(clip_id, clip.comments_count + 1),
                              !.ins_notifications = n.rows],
                           n.push)

\* POST /clips/{clip_id}/comments/{comment_id}/like
like_clip_comment(d, current_user, clip_id, comment_id) ==
    IF ~(comment_id \in DOMAIN d.comments /\ d.comments[comment_id].clip_id = clip_id)
    THEN HttpError(404)
    ELSE LET comment == d.comments[comment_id]
             like == LikeRow(current_user.id, NULL, NULL, comment_id)
             existing == CopiesIn(like, d.likes)
         IN  IF existing > 1 THEN HttpError(500)   \* scalar_one_or_none raises
             ELSE IF existing = 1
             THEN Return(comment_to_response(load_comment(d, comment_id), TRUE))
             ELSE LET n == create_notification(comment.user_id, current_user.id, "like",
                                               NULL, clip_id, comment_id)
                  IN  Work(200, Refresh("comment", comment_id, TRUE),
                           [EmptyPlan EXCEPT
                              !.ins_likes = SetToBag({like}),
                              !.comment_likes_count =
                                 Upd(comment_id, comment.likes_count + 1),
                              !.ins_notifications = n.rows],
                           n.push)

\* DELETE /clips/{clip_id}/comments/{comment_id}/like
unlike_clip_comment(d, current_user, clip_id, comment_id) ==
    IF ~(comment_id \in DOMAIN d.comments /\ d.comments[comment_id].clip_id = clip_id)
    THEN HttpError(404)
    ELSE LET comment == d.comments[comment_id]
             like == LikeRow(current_user.id, NULL, NULL, comment_id)
             existing == CopiesIn(like, d.likes)
         IN  IF existing > 1 THEN HttpError(500)   \* scalar_one_or_none raises
             ELSE IF existing = 1
             THEN Work(200, Refresh("comment", comment_id, FALSE),
                       [EmptyPlan EXCEPT
                          !.del_likes = SetToBag({like}),
                          !.comment_likes_count =
                             Upd(comment_id, Max0(comment.likes_count - 1))],
                       <<>>)
             ELSE Work(200, Refresh("comment", comment_id, FALSE), EmptyPlan, <<>>)

----------------------------------------------------------------------------
(* app/db/session.py *)

\* get_db whose failed flush leaves the counter UPDATEs in the store
Finish_keeping_counter_updates(d, w) ==
    IF w.status >= 400
    THEN [db |-> d, push |-> w.push, resp |-> [status |-> w.status, body |-> w.body]]
    ELSE IF IntegrityError(d, w.plan)
    THEN [db |-> Flush(d, [EmptyPlan EXCEPT
                             !.followers_count = w.plan.followers_count,
                             !.following_count = w.plan.following_count]),
          push |-> w.push,
          resp |-> [status |-> 500, body |-> [detail |-> "error"]]]
    ELSE LET after == Flush(d, w.plan)
         IN  [db |-> after, push |-> w.push,
              resp |-> [status |-> w.status, body |-> Resolve(d, after, w.body)]]

\* get_db after the handler: commit what is pending; an HTTPException or a
\* failed flush rolls everything back.  Jobs already queued stay queued.
Finish(d, w) ==
    IF w.status >= 400
    THEN [db |-> d, push |-> w.push, resp |-> [status |-> w.status, body |-> w.body]]
    ELSE IF IntegrityError(d, w.plan)
    THEN [db |-> d, push |-> w.push,
          resp |-> [status |-> 500, body |-> [detail |-> "error"]]]
    ELSE LET after == Flush(d, w.plan)
         IN  [db |-> after, push |-> w.push,
              resp |-> [status |-> w.status, body |-> Resolve(d, after, w.body)]]

----------------------------------------------------------------------------
(* app/services/feed_service.py, app/services/repost_service.py: queries   *)

Min(a, b) == IF a < b THEN a ELSE b

\* .order_by(desc(created_at)) over the rows ids, created_at[id] their column
RECURSIVE OrderByDesc(_, _)
OrderByDesc(ids, created_at) ==
    IF ids = {} THEN <<>>
    ELSE LET top == CHOOSE i \in ids : \A j \in ids : created_at[j] <= created_at[i]
         IN  <<top>> \o OrderByDesc(ids \ {top}, created_at)

\* .offset(skip).limit(limit), and the slice items[skip : skip + limit]
Slice(seq, skip, limit) == SubSeq(seq, skip + 1, Min(Len(seq), skip + limit))

\* select(Follow.following_id).where(Follow.follower_id == user_id)
subq_following(d, user_id) == {e[2] : e \in {f \in d.follows : f[1] = user_id}}

\* get_feed_posts whose followers_only branch does not look at the follow graph
get_feed_posts_ignoring_follows(d, current_user_id, skip, limit) ==
    LET ids == {p \in DOMAIN d.posts :
                   IF current_user_id = NULL
                   THEN d.posts[p].visibility = "public"
                   ELSE \/ d.posts[p].visibility = "public"
                        \/ /\ d.posts[p].visibility = "private"
                           /\ d.posts[p].user_id = current_user_id
                        \/ d.posts[p].visibility = "followers_only"}
        page == Slice(OrderByDesc(ids, [p \in ids |-> d.posts[p].created_at]), skip, limit)
    IN  [i \in DOMAIN page |-> load_post(d, page[i])]

\* get_feed_posts: the posts the viewer may see, newest first, one window
get_feed_posts(d, current_user_id, skip, limit) ==
    LET ids == {p \in DOMAIN d.posts :
                   IF current_user_id = NULL
                   THEN d.posts[p].visibility = "public"
                   ELSE \/ d.posts[p].visibility = "public"
                        \/ /\ d.posts[p].visibility = "private"
                           /\ d.posts[p].user_id = current_user_id
                        \/ /\ d.posts[p].visibility = "followers_only"
                           /\ \/ d.posts[p].user_id = current_user_id
                              \/ d.posts[p].user_id \in subq_following(d, current_user_id)}
        page == Slice(OrderByDesc(ids, [p \in ids |-> d.posts[p].created_at]), skip, limit)
    IN  [i \in DOMAIN page |-> load_post(d, page[i])]

\* get_following_author_ids
get_following_author_ids(d, follower_id, author_ids) ==
    {a \in author_ids : <<follower_id, a>> \in d.follows}

\* get_user_liked_post_ids
get_user_liked_post_ids(d, user_id, post_ids) ==
    {p \in post_ids : \E l \in BagToSet(d.likes) : l.user_id = user_id /\ l.post_id = p}

\* get_user_posts_visible: one author's posts the viewer may see
get_user_posts_visible(d, author_id, viewer_id, skip, limit) ==
    LET ids == {p \in DOMAIN d.posts :
                   /\ d.posts[p].user_id = author_id
                   /\ IF viewer_id = NULL
                      THEN d.posts[p].visibility = "public"
                      ELSE \/ d.posts[p].visibility = "public"
                           \/ /\ d.posts[p].visibility = "private"
                              /\ d.posts[p].user_id = viewer_id
                           \/ /\ d.posts[p].visibility = "followers_only"
                              /\ \/ d.posts[p].user_id = viewer_id
                                 \/ d.posts[p].user_id \in subq_following(d, viewer_id)}
        page == Slice(OrderByDesc(ids, [p \in ids |-> d.posts[p].created_at]), skip, limit)
    IN  [i \in DOMAIN page |-> load_post(d, page[i])]

\* get_feed_reposts: the reposts shown to the viewer, newest first, one window
get_feed_reposts(d, current_user_id, skip, limit) ==
    LET ids == {r \in DOMAIN d.reposts :
                   \/ d.reposts[r].user_id = current_user_id
                   \/ d.reposts[r].user_id \in subq_following(d, current_user_id)
                   \/ d.posts[d.reposts[r].post_id].user_id
                         \in subq_following(d, current_user_id)
                   \/ d.posts[d.reposts[r].post_id].user_id = current_user_id
                   \/ d.posts[d.reposts[r].post_id].visibility = "public"}
        page == Slice(OrderByDesc(ids, [r \in ids |-> d.reposts[r].created_at]), skip, limit)
    IN  [i \in DOMAIN page |-> load_repost(d, page[i])]

----------------------------------------------------------------------------
(* app/api/v1/endpoints/feed.py *)

\* datetime.timestamp(): created_at is kept as the epoch tick of its UTC instant
timestamp(created_at) == created_at

\* obj.created_at.timestamp() if obj.created_at else 0.0
feed_time(obj) == IF obj.created_at = NULL THEN 0 ELSE timestamp(obj.created_at)

\* list.sort(key=lambda x: x[0], reverse=True): stable, larger keys first
RECURSIVE sort_reverse(_)
sort_reverse(items) ==
    IF items = <<>> THEN <<>>
    ELSE LET x == items[Len(items)]
             front == sort_reverse(SubSeq(items, 1, Len(items) - 1))
             n == Cardinality({i \in DOMAIN front : front[i].ts >= x.ts})
         IN  SubSeq(front, 1, n) \o <<x>> \o SubSeq(front, n + 1, Len(front))

\* feed_items that files a repost under the creation time of its original
feed_items_keyed_by_original(posts, reposts) ==
    [i \in DOMAIN posts |-> [ts |-> feed_time(posts[i]), typ |-> "post", obj |-> posts[i]]]
    \o [i \in DOMAIN reposts |->
          [ts |-> feed_time(reposts[i].post), typ |-> "repost", obj |-> reposts[i]]]

\* the (ts, typ, obj) tuples of _build_unified_feed, before sorting
feed_items(posts, reposts) ==
    [i \in DOMAIN posts |-> [ts |-> feed_time(posts[i]), typ |-> "post", obj |-> posts[i]]]
    \o [i \in DOMAIN reposts |->
          [ts |-> feed_time(reposts[i]), typ |-> "repost", obj |-> reposts[i]]]

\* _build_unified_feed
build_unified_feed(posts, reposts, liked_ids, following_ids, skip, limit) ==
    LET page == Slice(sort_reverse(feed_items(posts, reposts)), skip, limit)
    IN  [i \in DOMAIN page |->
           IF page[i].typ = "post"
           THEN [type |-> "post",
                 post |-> post_to_response(page[i].obj, page[i].obj.id \in liked_ids,
                                           page[i].obj.user_id \in following_ids)]
           ELSE [type |-> "repost", repost |-> repost_to_response(page[i].obj)]]

\* get_feed that fetches only limit rows from either stream
get_feed_fetching_limit(d, current_user, skip, limit) ==
    LET posts == get_feed_posts(d, current_user.id, 0, limit)
        reposts == get_feed_reposts(d, current_user.id, 0, limit)
        liked_ids == get_user_liked_post_ids(d, current_user.id,
                                             {posts[i].id : i \in DOMAIN posts})
        author_ids == {posts[i].user_id : i \in DOMAIN posts}
        following_ids == get_following_author_ids(d, current_user.id, author_ids)
    IN  Return([items |->
                  build_unified_feed(posts, reposts, liked_ids, following_ids, skip, limit)])

\* GET /feed
get_feed(d, current_user, skip, limit) ==
    LET fetch_limit == skip + limit
        posts == get_feed_posts(d, current_user.id, 0, fetch_limit * 2)
        reposts == get_feed_reposts(d, current_user.id, 0, fetch_limit * 2)
        liked_ids == get_user_liked_post_ids(d, current_user.id,
                                             {posts[i].id : i \in DOMAIN posts})
        author_ids == {posts[i].user_id : i \in DOMAIN posts}
        following_ids == get_following_author_ids(d, current_user.id, author_ids)
    IN  Return([items |->
                  build_unified_feed(posts, reposts, liked_ids, following_ids, skip, limit)])

----------------------------------------------------------------------------
(* app/api/v1/endpoints/posts.py, users.py, search.py: reads *)

\* GET /posts
list_posts(d, current_user, skip, limit) ==
    LET posts == get_feed_posts(d, current_user.id, skip, limit)
        liked_ids == get_user_liked_post_ids(d, current_user.id,
                                             {posts[i].id : i \in DOMAIN posts})
    IN  Return([items |-> [i \in DOMAIN posts |->
                   post_to_response(posts[i], posts[i].id \in liked_ids, FALSE)]])

\* GET /posts/{post_id} (credentials optional)
get_post(d, current_user, post_id) ==
    IF post_id \notin DOMAIN d.posts THEN HttpError(404)
    ELSE LET is_liked == /\ current_user.id # NULL
                         /\ post_id \in get_user_liked_post_ids(d, current_user.id, {post_id})
         IN  Return(post_to_response(load_post(d, post_id), is_liked, FALSE))

\* _can_view_private_profile that lets every logged-in viewer through
can_view_private_profile_when_logged_in(d, profile_owner_id, viewer_id) ==
    viewer_id # NULL

\* _can_view_private_profile
can_view_private_profile(d, profile_owner_id, viewer_id) ==
    IF viewer_id = NULL THEN FALSE
    ELSE IF profile_owner_id = viewer_id THEN TRUE
    ELSE is_following(d, viewer_id, profile_owner_id)

\* GET /users/{user_id} (credentials optional)
get_user(d, current_user, user_id) ==
    IF user_id \notin DOMAIN d.users THEN HttpError(404)
    ELSE LET user == d.users[user_id]
             viewer_id == current_user.id
             following == IF viewer_id # NULL THEN is_following(d, viewer_id, user_id)
                          ELSE FALSE
             is_requested == IF viewer_id # NULL /\ ~following
                             THEN has_pending_request(d, viewer_id, user_id)
                             ELSE FALSE
             can_view == \/ ~user.is_private
                         \/ can_view_private_profile(d, user_id, viewer_id)
         IN  Return([id |-> user_id,
                     username |-> user.username,
                     display_name |-> IF can_view THEN user.display_name ELSE user.username,
                     bio |-> IF can_view THEN user.bio ELSE NULL,
                     avatar_url |-> IF can_view THEN user.avatar_url ELSE NULL,
                     is_verified |-> IF can_view THEN user.is_verified ELSE FALSE,
                     followers_count |-> IF can_view THEN user.followers_count ELSE 0,
                     following_count |-> IF can_view THEN user.following_count ELSE 0,
                     who_can_comment |-> user.who_can_comment,
                     is_private |-> user.is_private,
                     is_following |-> following,
                     is_requested |-> is_requested])

\* get_user_posts without the check of the author's is_private
get_user_posts_without_profile_check(d, current_user, user_id, skip, limit) ==
    LET viewer_id == current_user.id
        posts == get_user_posts_visible(d, user_id, viewer_id, skip, limit)
        liked_ids == IF viewer_id = NULL THEN {}
                     ELSE get_user_liked_post_ids(d, viewer_id,
                              {posts[i].id : i \in DOMAIN posts})
        following_ids == IF viewer_id = NULL THEN {}
                         ELSE get_following_author_ids(d, viewer_id, {user_id})
    IN  Return([items |-> [i \in DOMAIN posts |->
                   post_to_response(posts[i], posts[i].id \in liked_ids,
                                    user_id \in following_ids)]])

\* GET /users/{user_id}/posts (credentials optional)
get_user_posts(d, current_user, user_id, skip, limit) ==
    LET viewer_id == current_user.id
    IN  IF /\ user_id \in DOMAIN d.users
           /\ d.users[user_id].is_private
           /\ ~can_view_private_profile(d, user_id, viewer_id)
        THEN Return([items |-> <<>>])
        ELSE LET posts == get_user_posts_visible(d, user_id, viewer_id, skip, limit)
                 liked_ids == IF viewer_id = NULL THEN {}
                              ELSE get_user_liked_post_ids(d, viewer_id,
                                       {posts[i].id : i \in DOMAIN posts})
                 following_ids == IF viewer_id = NULL THEN {}
                                  ELSE get_following_author_ids(d, viewer_id, {user_id})
             IN  Return([items |-> [i \in DOMAIN posts |->
                            post_to_response(posts[i], posts[i].id \in liked_ids,
                                             user_id \in following_ids)]])

\* GET /search: q is the stripped query; every stored post's content holds the
\* one search term of the model, and the statement has no ORDER BY
search(d, current_user, q, limit) ==
    IF q = "" THEN Return([users |-> <<>>, posts |-> <<>>, clips |-> <<>>])
    ELSE LET page == Slice([p \in DOMAIN d.posts |-> p], 0, limit)
             found == Slice([u \in DOMAIN d.users |-> u], 0, limit)
         IN  Return([users |-> [i \in DOMAIN found |-> load_user(d, found[i])],
                     posts |-> [i \in DOMAIN page |->
                                  post_to_response(load_post(d, page[i]), FALSE, FALSE)],
                     clips |-> <<>>])

----------------------------------------------------------------------------
(* The router *)

\* a request: the operation, the caller (NULL: no credentials), the path
\* parameter and the one field of the body or second path parameter
Call(op, user, target, arg) == [user |-> user, op |-> op, target |-> target, arg |-> arg]

\* the handler of a call, run against the store d
Handle(d, call, current_user) ==
    CASE call.op = "follow_user" -> follow_user(d, current_user, call.target)
      [] call.op = "create_post" -> create_post(d, current_user, call.arg)
      [] call.op = "create_clip" -> create_clip(d, current_user)
      [] call.op = "repost_post" -> repost_post(d, current_user, call.target)
      [] call.op = "like_post" -> like_post(d, current_user, call.target)
      [] call.op = "create_post_comment" ->
            create_post_comment(d, current_user, call.target, call.arg)
      [] call.op = "like_post_comment" ->
            like_post_comment(d, current_user, call.target, call.arg)
      [] call.op = "record_clip_view" -> record_clip_view(d, call.target)
      [] call.op = "unlike_post" -> unlike_post(d, current_user, call.target)
      [] call.op = "get_post" -> get_post(d, current_user, call.target)
      [] call.op = "list_posts" -> list_posts(d, current_user, call.arg[1], call.arg[2])
      [] call.op = "get_feed" -> get_feed(d, current_user, call.arg[1], call.arg[2])
      [] call.op = "get_user_posts" ->
            get_user_posts(d, current_user, call.target, call.arg[1], call.arg[2])
      [] call.op = "search" -> search(d, current_user, call.target, call.arg)
      [] call.op = "unfollow_user" -> unfollow_user(d, current_user, call.target)
      [] call.op = "get_user" -> get_user(d, current_user, call.target)
      [] call.op = "mark_one_as_read" -> mark_one_as_read(d, current_user, call.target)
      [] call.op = "mark_all_as_read" -> mark_all_as_read(d, current_user)
      [] call.op = "unread_count" -> unread_count(d, current_user)
      [] call.op = "remove_follower" -> remove_follower(d, current_user, call.target)
      [] call.op = "accept_follow_request" ->
            accept_follow_request(d, current_user, call.target)
      [] call.op = "reject_follow_request" ->
            reject_follow_request(d, current_user, call.target)
      [] call.op = "cancel_follow_request" ->
            cancel_follow_request(d, current_user, call.target)
      [] call.op = "update_me" -> update_me(d, current_user, call.arg)
      [] call.op = "unlike_post_comment" ->
            unlike_post_comment(d, current_user, call.target, call.arg)
      [] call.op = "create_clip_comment" ->
            create_clip_comment(d, current_user, call.target, call.arg)
      [] call.op = "like_clip_comment" ->
            like_clip_comment(d, current_user, call.target, call.arg)
      [] call.op = "unlike_clip_comment" ->
            unlike_clip_comment(d, current_user, call.target, call.arg)

\* one request served against the store d: the store, the jobs and the response
Outcome(d, call) ==
    Finish(d, Handle(d, call, get_current_user_optional(d, call.user)))

\* the store after the given calls were served one after the other
RECURSIVE After(_, _)
After(d, calls) ==
    IF calls = <<>> THEN d
    ELSE After(Finish(d, Handle(d, calls[1],
                                get_current_user_optional(d, calls[1].user))).db,
               Tail(calls))

----------------------------------------------------------------------------
(* Requests served one at a time: each action is one whole request, from   *)
(* authentication to the commit in get_db.                                 *)

\* a request ran handler work `w` to completion
Serve(w) ==
    LET out == Finish(db, w)
    IN  /\ Len(out.db.notifications) <= MaxNotifs
        /\ Len(push_queue \o out.push) <= MaxPushes
        /\ db' = out.db
        /\ push_queue' = push_queue \o out.push
        /\ UNCHANGED <<response, pc, sess>>

Targets == Users \cup {GhostId}

FollowUser == \E u \in Users, t \in Targets :
    Serve(follow_user(db, get_current_user(db, u), t))
UnfollowUser == \E u \in Users, t \in Users :
    Serve(unfollow_user(db, get_current_user(db, u), t))
RemoveFollower == \E u \in Users, t \in Users :
    Serve(remove_follower(db, get_current_user(db, u), t))
AcceptFollowRequest == \E u \in Users, t \in Users :
    Serve(accept_follow_request(db, get_current_user(db, u), t))
RejectFollowRequest == \E u \in Users, t \in Users :
    Serve(reject_follow_request(db, get_current_user(db, u), t))
CancelFollowRequest == \E u \in Users, t \in Users :
    Serve(cancel_follow_request(db, get_current_user(db, u), t))
UpdateMe == \E u \in Users, p \in {<<>>, <<TRUE>>, <<FALSE>>} :
    Serve(update_me(db, get_current_user(db, u), p))

NoResponse == [op |-> "none"]

Init ==
    /\ \E priv \in [Users -> BOOLEAN] :
          db = EmptyDb([u \in Users |-> UserRow(priv[u], "everyone")])
    /\ push_queue = <<>>
    /\ response = NoResponse
    /\ pc = <<>>
    /\ sess = <<>>

Next ==
    \/ FollowUser
    \/ UnfollowUser
    \/ RemoveFollower
    \/ AcceptFollowRequest
    \/ RejectFollowRequest
    \/ CancelFollowRequest
    \/ UpdateMe

Spec == Init /\ [][Next]_vars

----------------------------------------------------------------------------
(* The follow graph *)

followers_of(d, u) == {e \in d.follows : e[2] = u}
following_of(d, u) == {e \in d.follows : e[1] = u}

\* C1: after any sequence of follow_user, unfollow_user, remove_follower and
\* accept_follow_request served one at a time, followers_count(U) is the number
\* of Follow edges into U and following_count(U) the number of edges out of U.
C1_CountersMatchEdges ==
    \A u \in Users :
        /\ db.users[u].followers_count = Cardinality(followers_of(db, u))
        /\ db.users[u].following_count = Cardinality(following_of(db, u))

\* a request was accepted and its edge stands, counted once on either side
C1_Witness ==
    \E u \in Users, i \in DOMAIN db.notifications :
        /\ db.notifications[i].type = "follow_request_accepted"
        /\ db.notifications[i].actor_id = u
        /\ <<db.notifications[i].user_id, u>> \in db.follows
        /\ db.users[u].followers_count = 1
        /\ db.users[db.notifications[i].user_id].following_count = 1

\* C2: no ordered pair (A, B) has a Follow edge and a FollowRequest edge at the
\* same time, whatever follow-graph operations and is_private changes ran.
C2_FollowExcludesRequest == db.follows \cap db.follow_requests = {}

\* followers_count and following_count of every user
Counters(d) ==
    [u \in DOMAIN d.users |->
        <<d.users[u].followers_count, d.users[u].following_count>>]

\* C11: for distinct users A, B with B public and no Follow edge (A, B), one
\* follow_user(A, B) makes follows(A, B) true and raises followers_count(B) and
\* following_count(A) by exactly 1; calling it again, once or twice more, leaves
\* the Follow edges, every counter and the Notification rows as the first call
\* left them.
C11_FollowOnceThenIdempotent ==
    \A A, B \in Users :
        (A # B /\ ~db.users[B].is_private /\ <<A, B>> \notin db.follows) =>
            LET call == Call("follow_user", A, B, NULL)
                once == Outcome(db, call).db
                twice == After(once, <<call>>)
                thrice == After(once, <<call, call>>)
            IN  /\ <<A, B>> \in once.follows
                /\ once.users[B].followers_count = db.users[B].followers_count + 1
                /\ once.users[A].following_count = db.users[A].following_count + 1
                /\ \A again \in {twice, thrice} :
                      /\ again.follows = once.follows
                      /\ Counters(again) = Counters(once)
                      /\ again.notifications = once.notifications

\* A follows the public B, B was notified of it once, and one more
\* follow_user(A, B) answers follows = true and changes nothing
C11_Witness ==
    \E A, B \in Users :
        /\ <<A, B>> \in db.follows
        /\ ~db.users[B].is_private
        /\ db.users[B].followers_count = 1 /\ db.users[A].following_count = 1
        /\ Cardinality({i \in DOMAIN db.notifications :
               db.notifications[i] = NotificationRow(B, A, "follow", NULL, NULL, NULL)}) = 1
        /\ LET out == Outcome(db, Call("follow_user", A, B, NULL))
           IN  out.db = db /\ out.resp.body = [follows |-> TRUE, requested |-> FALSE]

\* the step served accept_follow_request by B for the requester A
AcceptedBy(B, A) ==
    /\ <<A, B>> \in db.follow_requests
    /\ db' = Outcome(db, Call("accept_follow_request", B, A, NULL)).db

\* C12 as stated: follow_user(A, B) on a private B leaves a FollowRequest, and
\* from then on follows(A, B) does not become true by any step other than
\* accept_follow_request by B for A.
C12_NoFollowBeforeAccept ==
    [][\A A, B \in Users :
          (/\ <<A, B>> \in db.follow_requests
           /\ <<A, B>> \notin db.follows
           /\ <<A, B>> \in db'.follows) => AcceptedBy(B, A)]_vars

\* C12, amended: follow_user(A, B) on a private B creates the FollowRequest
\* (A, B), creates no Follow edge and changes no counter; and while B is
\* private, follows(A, B) becomes true only by accept_follow_request by B for
\* the pending requester A.  (Once B has made the profile public, follow_user
\* creates the edge directly.)
C12_RequestUntilAcceptWhilePrivate ==
    [][\A A, B \in Users :
          /\ (A # B /\ db.users[B].is_private /\ <<A, B>> \notin db.follows) =>
                LET out == Outcome(db, Call("follow_user", A, B, NULL))
                IN  /\ <<A, B>> \in out.db.follow_requests
                    /\ out.db.follows = db.follows
                    /\ Counters(out.db) = Counters(db)
                    /\ out.resp.body = [follows |-> FALSE, requested |-> TRUE]
          /\ (/\ db.users[B].is_private
              /\ <<A, B>> \notin db.follows
              /\ <<A, B>> \in db'.follows) => AcceptedBy(B, A)]_vars

\* the private B was asked by A and accepted: both notifications are stored,
\* the edge stands and the request is gone
C12_Witness ==
    \E A, B \in Users :
        /\ db.users[B].is_private
        /\ <<A, B>> \in db.follows /\ <<A, B>> \notin db.follow_requests
        /\ db.notifications =
              <<NotificationRow(B, A, "follow_request", NULL, NULL, NULL),
                NotificationRow(A, B, "follow_request_accepted", NULL, NULL, NULL)>>

\* C13: unfollow_user(A, B) answers follows = false; without a Follow edge
\* (A, B) it leaves every Follow edge, every FollowRequest and every counter
\* as they are; with the edge it removes exactly that edge and lowers
\* followers_count(B) and following_count(A) by 1 each, nothing else.
C13_UnfollowEffect ==
    \A A \in Users, B \in Targets :
        LET out == Outcome(db, Call("unfollow_user", A, B, NULL))
        IN  /\ out.resp = [status |-> 200, body |-> [follows |-> FALSE]]
            /\ out.db.follow_requests = db.follow_requests
            /\ IF <<A, B>> \notin db.follows
               THEN out.db.follows = db.follows /\ Counters(out.db) = Counters(db)
               ELSE /\ out.db.follows = db.follows \ {<<A, B>>}
                    /\ Counters(out.db) =
                          [u \in Users |->
                             <<db.users[u].followers_count - (IF u = B THEN 1 ELSE 0),
                               db.users[u].following_count - (IF u = A THEN 1 ELSE 0)>>]

\* B was told that A follows them, the edge is gone again and both counters
\* are back at 0, while another request is pending; unfollowing once more
\* changes nothing
C13_Witness ==
    \E A, B \in Users :
        /\ \E i \in DOMAIN db.notifications :
              db.notifications[i] = NotificationRow(B, A, "follow", NULL, NULL, NULL)
        /\ <<A, B>> \notin db.follows
        /\ db.users[B].followers_count = 0 /\ db.users[A].following_count = 0
        /\ db.follow_requests # {}
        /\ Outcome(db, Call("unfollow_user", A, B, NULL)).db = db

\* C21: accept_follow_request by B for a requester A other than B: without a
\* FollowRequest (A, B) it fails with 404 and changes no edge, request, counter
\* or notification and queues no job; with one, after the call the request is
\* gone, the Follow edge (A, B) exists, and followers_count(B) and
\* following_count(A) are each exactly 1 higher.
C21_AcceptEffect ==
    \A B \in Users : \A A \in Targets \ {B} :
        LET out == Outcome(db, Call("accept_follow_request", B, A, NULL))
        IN  IF <<A, B>> \notin db.follow_requests
            THEN out.resp.status = 404 /\ out.db = db /\ out.push = <<>>
            ELSE /\ <<A, B>> \notin out.db.follow_requests
                 /\ <<A, B>> \in out.db.follows
                 /\ out.db.users[B].followers_count = db.users[B].followers_count + 1
                 /\ out.db.users[A].following_count = db.users[A].following_count + 1

\* C22: follow_user with the caller as target and accept_follow_request with
\* the caller as requester answer with the current state, not with an error,
\* and change no edge, request, counter or notification.
C22_SelfFollowSelfAcceptNoOp ==
    \A u \in Users :
        \A op \in {"follow_user", "accept_follow_request"} :
            LET out == Outcome(db, Call(op, u, u, NULL))
            IN  /\ out.resp.status < 300
                /\ out.db = db
                /\ out.push = <<>>

\* C25: reject_follow_request by B for A and cancel_follow_request by A for B
\* remove the FollowRequest (A, B) if there is one and nothing else: every
\* other request, every Follow edge, every counter and every Notification row
\* stay as they are, and no job is queued.
C25_RejectCancelFrame ==
    \A A \in Users, B \in Users :
        \A call \in {Call("reject_follow_request", B, A, NULL),
                     Call("cancel_follow_request", A, B, NULL)} :
            LET out == Outcome(db, call)
            IN  /\ out.db = [db EXCEPT !.follow_requests = @ \ {<<A, B>>}]
                /\ out.db.follows = db.follows
                /\ Counters(out.db) = Counters(db)
                /\ out.db.notifications = db.notifications
                /\ out.push = <<>>

\* A asked two private users; A cancels the request to B, and B could
\* as well reject it: that one request goes, the other one stays, and with
\* no request (B, A) the same two calls the other way round change nothing
C25_Witness ==
    \E A, B, C \in Users :
        /\ B # C
        /\ {<<A, B>>, <<A, C>>} \subseteq db.follow_requests
        /\ <<B, A>> \notin db.follow_requests
        /\ Outcome(db, Call("cancel_follow_request", A, B, NULL)).db.follow_requests
              = db.follow_requests \ {<<A, B>>}
        /\ Outcome(db, Call("reject_follow_request", B, A, NULL)).db.follow_requests
              = db.follow_requests \ {<<A, B>>}
        /\ Outcome(db, Call("cancel_follow_request", B, A, NULL)).db = db
        /\ Outcome(db, Call("reject_follow_request", A, B, NULL)).db = db

\* C29: every push job that a request hands to the broker comes with a
\* Notification row that the same request commits: a request that is rolled
\* back leaves no job behind.
C29_PushOnlyWithCommittedNotification ==
    [][Len(push_queue') - Len(push_queue)
          = Len(db'.notifications) - Len(db.notifications)]_vars

----------------------------------------------------------------------------
(* Likes and comments on a post, served one at a time *)

PostTargets == DOMAIN db.posts \cup {Len(db.posts) + 1}
CommentTargets == DOMAIN db.comments \cup {Len(db.comments) + 1}
Parents == {NULL} \cup CommentTargets

LikePost == \E u \in Users, p \in PostTargets :
    Serve(like_post(db, get_current_user(db, u), p))
UnlikePost == \E u \in Users, p \in DOMAIN db.posts :
    Serve(unlike_post(db, get_current_user(db, u), p))
CreatePostComment == \E u \in Users, p \in DOMAIN db.posts, parent \in Parents :
    /\ Len(db.comments) < MaxComments
    /\ Serve(create_post_comment(db, get_current_user(db, u), p, parent))
LikePostComment == \E u \in Users, p \in DOMAIN db.posts, c \in DOMAIN db.comments :
    Serve(like_post_comment(db, get_current_user(db, u), p, c))
UnlikePostComment == \E u \in Users, p \in DOMAIN db.posts, c \in DOMAIN db.comments :
    Serve(unlike_post_comment(db, get_current_user(db, u), p, c))

\* user 1 has published one public post
InitEngage ==
    /\ db = After(EmptyDb([u \in Users |-> UserRow(FALSE, "everyone")]),
                  <<Call("create_post", 1, NULL, "public")>>)
    /\ push_queue = <<>>
    /\ response = NoResponse
    /\ pc = <<>>
    /\ sess = <<>>

NextEngage ==
    \/ LikePost
    \/ UnlikePost
    \/ CreatePostComment
    \/ LikePostComment
    \/ UnlikePostComment

SpecEngage == InitEngage /\ [][NextEngage]_vars

post_likes(d, p) ==
    BagCardinality([l \in {x \in BagToSet(d.likes) : x.post_id = p} |-> d.likes[l]])
comment_likes(d, c) ==
    BagCardinality([l \in {x \in BagToSet(d.likes) : x.comment_id = c} |-> d.likes[l]])

\* C5: with like and unlike requests served one at a time, likes_count of every
\* post and of every comment is the number of Like rows that target it.
C5_LikesCountMatchesRows ==
    /\ \A p \in DOMAIN db.posts : db.posts[p].likes_count = post_likes(db, p)
    /\ \A c \in DOMAIN db.comments : db.comments[c].likes_count = comment_likes(db, c)

\* a post liked by two users, and a comment whose like was taken back
C5_Witness ==
    /\ \E p \in DOMAIN db.posts : db.posts[p].likes_count = 2
    /\ \E c \in DOMAIN db.comments, i \in DOMAIN db.notifications :
          /\ db.notifications[i].target_comment_id = c
          /\ db.notifications[i].type = "like"
          /\ db.comments[c].likes_count = 0

\* the store `out` that a like (an unlike) by one user left, compared with the
\* store d before it: that user's Like row and its share of the target's
\* likes_count (before, after)
LikedAfter(d, out, like, before, after) ==
    /\ CopiesIn(like, out.likes) = 1
    /\ after = before + (1 - CopiesIn(like, d.likes))
    /\ BagIn(like, d.likes) => out = d
UnlikedAfter(d, out, like, before, after) ==
    /\ CopiesIn(like, out.likes) = 0
    /\ after = before - CopiesIn(like, d.likes)
    /\ ~BagIn(like, d.likes) => out = d

\* C15: for one user and one post, and for one user and one comment, after any
\* sequence of like and unlike calls served one at a time: a like leaves
\* exactly one Like row of that user and a share of 1 in likes_count, an unlike
\* leaves no Like row and a share of 0; liking what is liked and unliking what
\* is not liked change nothing at all.
C15_LikeUnlikeByLastCall ==
    /\ \A u \in Users, p \in DOMAIN db.posts :
          LET like == LikeRow(u, p, NULL, NULL)
              liked == Outcome(db, Call("like_post", u, p, NULL)).db
              unliked == Outcome(db, Call("unlike_post", u, p, NULL)).db
          IN  /\ CopiesIn(like, db.likes) <= 1
              /\ LikedAfter(db, liked, like,
                            db.posts[p].likes_count, liked.posts[p].likes_count)
              /\ UnlikedAfter(db, unliked, like,
                              db.posts[p].likes_count, unliked.posts[p].likes_count)
              /\ liked.likes (-) SetToBag({like}) = db.likes (-) SetToBag({like})
              /\ unliked.likes = db.likes (-) SetToBag({like})
    /\ \A u \in Users, c \in DOMAIN db.comments :
          LET like == LikeRow(u, NULL, NULL, c)
              p == db.comments[c].post_id
              liked == Outcome(db, Call("like_post_comment", u, p, c)).db
              unliked == Outcome(db, Call("unlike_post_comment", u, p, c)).db
          IN  /\ CopiesIn(like, db.likes) <= 1
              /\ LikedAfter(db, liked, like,
                            db.comments[c].likes_count, liked.comments[c].likes_count)
              /\ UnlikedAfter(db, unliked, like,
                              db.comments[c].likes_count, unliked.comments[c].likes_count)
              /\ liked.likes (-) SetToBag({like}) = db.likes (-) SetToBag({like})
              /\ unliked.likes = db.likes (-) SetToBag({like})

\* a user liked another user's post, took the like back and liked it again:
\* the author was notified twice, one Like row is stored and it counts once
C15_Witness ==
    \E u \in Users, p \in DOMAIN db.posts :
        /\ db.notifications = <<NotificationRow(db.posts[p].user_id, u, "like", p, NULL, NULL),
                                NotificationRow(db.posts[p].user_id, u, "like", p, NULL, NULL)>>
        /\ CopiesIn(LikeRow(u, p, NULL, NULL), db.likes) = 1
        /\ db.posts[p].likes_count = 1

----------------------------------------------------------------------------
(* Every handler that notifies, served one at a time *)

CreateClipComment ==
    \E u \in Users, c \in DOMAIN db.clips, parent \in {NULL} \cup DOMAIN db.comments :
    /\ Len(db.comments) < MaxComments
    /\ Serve(create_clip_comment(db, get_current_user(db, u), c, parent))
LikeClipComment == \E u \in Users, c \in DOMAIN db.clips, k \in DOMAIN db.comments :
    Serve(like_clip_comment(db, get_current_user(db, u), c, k))

\* user 1 is public and has a post, user 2 is private and has a clip
InitNotify ==
    /\ db = After(EmptyDb([u \in Users |-> UserRow(u = 2, "everyone")]),
                  <<Call("create_post", 1, NULL, "public"),
                    Call("create_clip", 2, NULL, NULL)>>)
    /\ push_queue = <<>>
    /\ response = NoResponse
    /\ pc = <<>>
    /\ sess = <<>>

NextNotify ==
    \/ FollowUser
    \/ AcceptFollowRequest
    \/ LikePost
    \/ CreatePostComment
    \/ LikePostComment
    \/ CreateClipComment
    \/ LikeClipComment

SpecNotify == InitNotify /\ [][NextNotify]_vars

\* C6: no Notification row has user_id = actor_id, and no push job is queued
\* for an action whose target is the actor.
C6_NoSelfNotification ==
    /\ \A i \in DOMAIN db.notifications :
          db.notifications[i].user_id # db.notifications[i].actor_id
    /\ \A j \in DOMAIN push_queue : push_queue[j].user_id # push_queue[j].actor_id

\* a user liked their own post, replied to their own comment on their own post
\* and liked their own comment
C6_Witness ==
    \E u \in Users, p \in DOMAIN db.posts, c, r \in DOMAIN db.comments :
        /\ db.posts[p].user_id = u
        /\ BagIn(LikeRow(u, p, NULL, NULL), db.likes)
        /\ db.comments[c].user_id = u /\ db.comments[c].post_id = p
        /\ db.comments[r].user_id = u /\ db.comments[r].parent_id = c
        /\ BagIn(LikeRow(u, NULL, NULL, c), db.likes)

\* the comments a "comment" notification may be about: written by its actor
\* on its post or clip, with the recipient being the author of the parent
\* comment if there is one, of the post or clip otherwise
NotifiedComments(d, n) ==
    {c \in DOMAIN d.comments :
        /\ d.comments[c].user_id = n.actor_id
        /\ d.comments[c].post_id = n.target_post_id
        /\ d.comments[c].clip_id = n.target_clip_id
        /\ n.user_id =
              IF d.comments[c].parent_id # NULL
              THEN d.comments[d.comments[c].parent_id].user_id
              ELSE IF n.target_post_id # NULL THEN d.posts[n.target_post_id].user_id
              ELSE d.clips[n.target_clip_id].user_id}

\* C30: the Notification row of a new comment carries the id of that Comment
\* row as target_comment_id, together with the post or clip id, and goes to
\* the author of the parent comment if parent_id names one, to the author of
\* the post or clip otherwise.
C30_CommentNotificationTargets ==
    \A i \in DOMAIN db.notifications :
        db.notifications[i].type = "comment" =>
            db.notifications[i].target_comment_id
                \in NotifiedComments(db, db.notifications[i])

----------------------------------------------------------------------------
(* Two requests in flight at once.  Each has its own session: the caller's  *)
(* row is loaded when the request is authenticated, the handler reads the   *)
(* committed store (READ COMMITTED) and queues its push jobs, and get_db    *)
(* flushes and commits the session's unit of work later.                    *)

Requests == 1..NumRequests

\* the requests a client may send: the handlers that bump a counter
Calls ==
    {Call("follow_user", u, t, NULL) : u \in Users, t \in Users}
    \cup {Call(op, u, p, NULL) : op \in {"like_post", "create_post_comment"},
                                 u \in Users, p \in DOMAIN db.posts}
    \cup {Call("like_post_comment", u, p, c) :
             u \in Users, p \in DOMAIN db.posts, c \in DOMAIN db.comments}
    \cup {Call("record_clip_view", NULL, c, NULL) : c \in DOMAIN db.clips}

\* a request arrives; Depends(get_current_user) loads the caller's row
BeginRequest(r) ==
    /\ pc[r] = "idle"
    /\ \E call \in Calls :
          sess' = [sess EXCEPT ![r] =
                     [call |-> call,
                      current_user |-> get_current_user_optional(db, call.user)]]
    /\ pc' = [pc EXCEPT ![r] = "authed"]
    /\ UNCHANGED <<db, push_queue, response>>

\* the FollowRequest rows that the handler of the call deleted itself, with
\* delete(FollowRequest).where(...), and keeps locked until its commit
CoreDeletedRequests(call, w) ==
    IF call.op \in {"reject_follow_request", "cancel_follow_request"}
    THEN w.plan.del_requests \cap db.follow_requests
    ELSE {}

\* delete(Follow).where(...) and delete(FollowRequest).where(...) are executed
\* by the handler itself, not at the flush: the statement waits while another
\* open transaction has deleted the same row
RowLocked(r, w) ==
    \E other \in Requests \ {r} :
        /\ pc[other] = "ran"
        /\ \/ sess[other].work.plan.del_follows \cap w.plan.del_follows # {}
           \/ CoreDeletedRequests(sess[other].call, sess[other].work)
                 \cap CoreDeletedRequests(sess[r].call, w) # {}

\* the DELETE that the flush sends for db.delete(fr) waits as well
FlushWaits(r) ==
    \E other \in Requests \ {r} :
        /\ pc[other] = "ran"
        /\ CoreDeletedRequests(sess[other].call, sess[other].work)
              \cap sess[r].work.plan.del_requests # {}

\* the handler body up to its commit: reads, pending writes, queued jobs
RunHandler(r) ==
    /\ pc[r] = "authed"
    /\ LET w == Handle(db, sess[r].call, sess[r].current_user)
       IN  /\ ~RowLocked(r, w)
           /\ sess' = [sess EXCEPT ![r] = [call |-> sess[r].call, work |-> w]]
           /\ push_queue' = push_queue \o w.push
    /\ pc' = [pc EXCEPT ![r] = "ran"]
    /\ UNCHANGED <<db, response>>

\* db.commit() / get_db: the flush writes the session's values, then commits
CommitRequest(r) ==
    /\ pc[r] = "ran"
    /\ ~FlushWaits(r)
    /\ LET out == Finish(db, [sess[r].work EXCEPT !.push = <<>>])
       IN  /\ db' = out.db
           /\ sess' = [sess EXCEPT ![r] = [call |-> sess[r].call, resp |-> out.resp]]
    /\ pc' = [pc EXCEPT ![r] = "done"]
    /\ UNCHANGED <<push_queue, response>>

\* user 1 has a post, a clip and a comment on the post; nobody follows anybody
InitConc ==
    /\ db = After(EmptyDb([u \in Users |-> UserRow(FALSE, "everyone")]),
                  <<Call("create_post", 1, NULL, "public"),
                    Call("create_clip", 1, NULL, NULL),
                    Call("create_post_comment", 1, 1, NULL)>>)
    /\ push_queue = <<>>
    /\ response = NoResponse
    /\ pc = [r \in Requests |-> "idle"]
    /\ sess = [r \in Requests |-> [call |-> [op |-> "none"]]]

NextConc ==
    \E r \in Requests :
        \/ BeginRequest(r)
        \/ RunHandler(r)
        \/ CommitRequest(r)

SpecConc == InitConc /\ [][NextConc]_vars

AllDone == \A r \in Requests : pc[r] = "done"

\* the requests that were answered 2xx and ran the given call
Succeeded(op, target) ==
    {r \in Requests : /\ pc[r] = "done"
                      /\ sess[r].call.op = op
                      /\ sess[r].call.target = target
                      /\ sess[r].resp.status < 300}

\* C3: when two requests that each increment the same counter are in flight at
\* once, both increments survive: once both are answered, followers_count,
\* likes_count, comments_count and views_count account for each of them.
C3_ConcurrentIncrementsSurvive ==
    AllDone =>
        /\ \A u \in Users :
              db.users[u].followers_count = Cardinality(followers_of(db, u))
        /\ \A p \in DOMAIN db.posts :
              /\ db.posts[p].likes_count = post_likes(db, p)
              /\ db.posts[p].comments_count =
                    Cardinality({c \in DOMAIN db.comments : db.comments[c].post_id = p})
        /\ \A c \in DOMAIN db.clips :
              db.clips[c].views_count = Cardinality(Succeeded("record_clip_view", c))

\* C4: at most one Like row per (user, target), also when like_post or
\* like_post_comment requests of the same user run at the same time.
C4_OneLikePerUserAndTarget ==
    \A l \in BagToSet(db.likes) : CopiesIn(l, db.likes) <= 1

----------------------------------------------------------------------------
(* Requests in flight at once, one after the other without end: users 2 and *)
(* 3 act on user 1, on 1's post, 1's comment and 1's clip, and user 1 acts  *)
(* on them.                                                                 *)

\* the handlers that lower a counter
LoweringCalls ==
    {Call(op, u, 1, NULL) : op \in {"unfollow_user", "unlike_post"}, u \in {2, 3}}
    \cup {Call("remove_follower", 1, u, NULL) : u \in {2, 3}}
    \cup {Call("unlike_post_comment", 2, 1, 1)}

\* the handlers that raise a counter
RaisingCalls ==
    {Call(op, u, 1, NULL) : op \in {"follow_user", "like_post"}, u \in {2, 3}}
    \cup {Call("accept_follow_request", 1, u, NULL) : u \in {2, 3}}
    \cup {Call("like_post_comment", 2, 1, 1),
          Call("create_post_comment", 2, 1, NULL),
          Call("repost_post", 2, 1, NULL),
          Call("record_clip_view", NULL, 1, NULL)}

\* rows and views stored so far, and the requests that may add one
Written ==
    Len(db.notifications) + Len(db.comments) + Len(db.reposts) + db.clips[1].views_count
    + Cardinality({r \in Requests : pc[r] \in {"authed", "ran"}})

\* a request arrives on a connection that is free
BeginRace(r) ==
    /\ pc[r] \in {"idle", "done"}
    /\ \E call \in LoweringCalls \cup RaisingCalls :
          /\ call \in RaisingCalls => Written < MaxWritten
          /\ sess' = [sess EXCEPT ![r] =
                        [call |-> call,
                         current_user |-> get_current_user_optional(db, call.user)]]
    /\ pc' = [pc EXCEPT ![r] = "authed"]
    /\ UNCHANGED <<db, push_queue, response>>

\* user 1, public or private, has a post, a clip and a comment on the post
InitRace ==
    /\ \E priv \in BOOLEAN :
          db = After(EmptyDb([u \in Users |-> UserRow(u = 1 /\ priv, "everyone")]),
                     <<Call("create_post", 1, NULL, "public"),
                       Call("create_clip", 1, NULL, NULL),
                       Call("create_post_comment", 1, 1, NULL)>>)
    /\ push_queue = <<>>
    /\ response = NoResponse
    /\ pc = [r \in Requests |-> "idle"]
    /\ sess = [r \in Requests |-> [call |-> [op |-> "none"]]]

NextRace ==
    \E r \in Requests :
        \/ BeginRace(r)
        \/ RunHandler(r)
        \/ CommitRequest(r)

SpecRace == InitRace /\ [][NextRace]_vars

\* C14: in every reachable state, whatever the order and the interleaving of
\* follow, unfollow, remove-follower, accept, like, unlike, comment, repost and
\* view requests, followers_count, following_count, likes_count,
\* comments_count, reposts_count and views_count are all >= 0.
C14_CountersNonNegative ==
    /\ \A u \in Users :
          db.users[u].followers_count >= 0 /\ db.users[u].following_count >= 0
    /\ \A p \in DOMAIN db.posts :
          /\ db.posts[p].likes_count >= 0
          /\ db.posts[p].comments_count >= 0
          /\ db.posts[p].reposts_count >= 0
    /\ \A c \in DOMAIN db.comments : db.comments[c].likes_count >= 0
    /\ \A c \in DOMAIN db.clips :
          db.clips[c].comments_count >= 0 /\ db.clips[c].views_count >= 0

\* two follows of user 1 ran at once and one increment was lost; one follower
\* has left since, so followers_count(1) is 0 with an edge still stored, and
\* the unfollow of the follower that is left keeps the counter at 0
C14_Witness ==
    \E u \in {2, 3} :
        /\ <<u, 1>> \in db.follows
        /\ db.users[1].followers_count = 0
        /\ Outcome(db, Call("unfollow_user", u, 1, NULL)).db.users[1].followers_count = 0

----------------------------------------------------------------------------
(* Requests in flight at once on the pending follow requests of user 1 *)

\* user 1 accepts or rejects, the requester cancels
AcceptCalls ==
    {Call(op, 1, u, NULL) : op \in {"accept_follow_request", "reject_follow_request"},
                            u \in {2, 3}}
    \cup {Call("cancel_follow_request", u, 1, NULL) : u \in {2, 3}}

\* a request arrives on a connection that is free
BeginAccept(r) ==
    /\ pc[r] \in {"idle", "done"}
    /\ \E call \in AcceptCalls :
          sess' = [sess EXCEPT ![r] =
                     [call |-> call,
                      current_user |-> get_current_user_optional(db, call.user)]]
    /\ pc' = [pc EXCEPT ![r] = "authed"]
    /\ UNCHANGED <<db, push_queue, response>>

\* users 2 and 3 have asked to follow the private user 1
InitAccept ==
    /\ db = After(EmptyDb([u \in Users |-> UserRow(u = 1, "everyone")]),
                  <<Call("follow_user", 2, 1, NULL), Call("follow_user", 3, 1, NULL)>>)
    /\ push_queue = <<>>
    /\ response = NoResponse
    /\ pc = [r \in Requests |-> "idle"]
    /\ sess = [r \in Requests |-> [call |-> [op |-> "none"]]]

NextAccept ==
    \E r \in Requests :
        \/ BeginAccept(r)
        \/ RunHandler(r)
        \/ CommitRequest(r)

SpecAccept == InitAccept /\ [][NextAccept]_vars

\* C24: of an accept that runs at the same time as a cancel, a reject or a
\* second accept of the same pending request, at most one consumes it: a
\* Follow edge (A, 1) only comes from a commit that deletes the pending
\* FollowRequest (A, 1) itself, and following_count(A) and followers_count(1)
\* rise by at most 1 for each request.
C24_OneConsumerPerRequest ==
    [][/\ \A A \in {2, 3} :
             /\ (<<A, 1>> \in db'.follows /\ <<A, 1>> \notin db.follows)
                => (<<A, 1>> \in db.follow_requests /\ <<A, 1>> \notin db'.follow_requests)
             /\ db'.users[A].following_count <= 1
       /\ db'.users[1].followers_count <= 2]_vars

----------------------------------------------------------------------------
(* The broker of the push jobs may be unreachable *)

\* send_push_notification.delay raises inside create_notification: neither
\* create_notification nor the handler catches it, so the handler ends before
\* its db.commit() and get_db rolls back; nothing was queued
delay_raises(w) ==
    IF w.push = <<>> THEN w ELSE Work(500, [detail |-> "error"], EmptyPlan, <<>>)

\* users 1 and 2 follow each other, like and comment on the post of user 1
BrokerCalls ==
    {Call("follow_user", u, t, NULL) : u \in {1, 2}, t \in {1, 2}}
    \cup {Call("accept_follow_request", 2, 1, NULL)}
    \cup {Call(op, u, 1, NULL) : op \in {"like_post", "create_post_comment"}, u \in {1, 2}}
    \cup {Call("like_post_comment", u, 1, c) : u \in {1, 2}, c \in DOMAIN db.comments}

\* one request served while the broker is up or down; the response is kept
\* with what became of the enqueue
Notify(call, broker_up) ==
    LET w == Handle(db, call, get_current_user_optional(db, call.user))
        out == Finish(db, IF broker_up THEN w ELSE delay_raises(w))
    IN  /\ Len(out.db.notifications) <= MaxNotifs
        /\ Len(out.db.comments) <= MaxComments
        /\ Len(push_queue \o out.push) <= MaxPushes
        /\ db' = out.db
        /\ push_queue' = push_queue \o out.push
        /\ response' = [call |-> call, status |-> out.resp.status,
                        enqueue |-> IF w.push = <<>> THEN "none"
                                    ELSE IF broker_up THEN "queued" ELSE "raised"]
        /\ UNCHANGED <<pc, sess>>

NotifyBrokerUp == \E call \in BrokerCalls : Notify(call, TRUE)
NotifyBrokerDown == \E call \in BrokerCalls : Notify(call, FALSE)

NextBroker ==
    \/ NotifyBrokerUp
    \/ NotifyBrokerDown

SpecBroker == InitNotify /\ [][NextBroker]_vars

\* C16: when send_push_notification.delay raises during a follow, a follow
\* request, an accept, a like or a comment, the action still succeeds: the
\* caller gets a 2xx response and the store holds what the same request
\* commits when the enqueue works (edge or row, counters, Notification row).
C16_EnqueueFailureTolerated ==
    [][response'.enqueue = "raised" =>
          /\ response'.status < 300
          /\ db' = Outcome(db, response'.call).db]_vars

----------------------------------------------------------------------------
(* Requests on the follow graph that may fail on their way: the enqueue of *)
(* the push job raises, or the store fails during the commit               *)

Faults == {"none", "delay", "commit"}

\* db.commit() raises (connection lost, deadlock, timeout): get_db rolls the
\* session back and the exception becomes a 500; queued jobs stay queued
commit_raises(d, w) ==
    [db |-> d, push |-> w.push, resp |-> [status |-> 500, body |-> [detail |-> "error"]]]

\* users 2 and 3 follow, ask and leave user 1, who accepts, removes followers
\* and opens or closes the profile
FaultCalls ==
    {Call(op, u, 1, NULL) : op \in {"follow_user", "unfollow_user"}, u \in {2, 3}}
    \cup {Call(op, 1, u, NULL) : op \in {"accept_follow_request", "remove_follower"},
                                u \in {2, 3}}
    \cup {Call("update_me", 1, NULL, <<b>>) : b \in BOOLEAN}

\* one request served, with or without a fault; its status is kept
Faulty(call, fault) ==
    LET w == Handle(db, call, get_current_user_optional(db, call.user))
        out == IF fault = "delay" THEN Finish(db, delay_raises(w))
               ELSE IF fault = "commit" /\ w.status < 400 THEN commit_raises(db, w)
               ELSE Finish(db, w)
    IN  /\ Len(out.db.notifications) <= MaxNotifs
        /\ Len(push_queue \o out.push) <= MaxPushes
        /\ db' = out.db
        /\ push_queue' = push_queue \o out.push
        /\ response' = [call |-> call, status |-> out.resp.status, fault |-> fault]
        /\ UNCHANGED <<pc, sess>>

ServeOrFail == \E call \in FaultCalls, fault \in Faults : Faulty(call, fault)

\* nobody follows anybody; user 1 is public or private
InitFault ==
    /\ \E priv \in BOOLEAN :
          db = EmptyDb([u \in Users |-> UserRow(u = 1 /\ priv, "everyone")])
    /\ push_queue = <<>>
    /\ response = NoResponse
    /\ pc = <<>>
    /\ sess = <<>>

NextFault == ServeOrFail

SpecFault == InitFault /\ [][NextFault]_vars

\* the Follow edges into and out of u among the edges es
EdgesInto(es, u) == Cardinality({e \in es : e[2] = u})
EdgesOutOf(es, u) == Cardinality({e \in es : e[1] = u})

\* C23: a request that changes a Follow edge (follow_user, unfollow_user,
\* remove_follower, accept_follow_request) persists the edge change together
\* with its two counter changes or nothing at all: in every step the counters
\* move by exactly the edges that came and went, and a request that fails, be
\* it in the notification's enqueue, on a constraint or in the commit, leaves
\* the store as it was.
C23_EdgeAndCountersTogether ==
    [][/\ \A u \in Users :
             /\ db'.users[u].followers_count =
                   db.users[u].followers_count
                   + EdgesInto(db'.follows \ db.follows, u)
                   - EdgesInto(db.follows \ db'.follows, u)
             /\ db'.users[u].following_count =
                   db.users[u].following_count
                   + EdgesOutOf(db'.follows \ db.follows, u)
                   - EdgesOutOf(db.follows \ db'.follows, u)
       /\ response'.status >= 400 => db' = db]_vars

\* a follow of the public user 1 got as far as queueing its job and failed
\* in the commit: no edge, no counter, no Notification row
C23_Witness ==
    /\ response # NoResponse
    /\ response.fault = "commit"
    /\ response.call.op = "follow_user"
    /\ response.status = 500
    /\ ~db.users[1].is_private
    /\ <<response.call.user, 1>> \notin db.follows
    /\ db.users[1].followers_count = Cardinality(followers_of(db, 1))
    /\ \E j \in DOMAIN push_queue :
          push_queue[j] = [user_id |-> 1, actor_id |-> response.call.user, type |-> "follow"]
    /\ \A i \in DOMAIN db.notifications : db.notifications[i].type # "follow"

----------------------------------------------------------------------------
(* Reading posts: who gets to see what *)

\* one request served, its response kept
Answer(call) ==
    LET out == Finish(db, Handle(db, call, get_current_user_optional(db, call.user)))
    IN  /\ db' = out.db
        /\ push_queue' = push_queue \o out.push
        /\ response' = [call |-> call, status |-> out.resp.status, body |-> out.resp.body]
        /\ UNCHANGED <<pc, sess>>

Viewers == Users \cup {NULL}
Windows == (0..MaxSkip) \X (1..MaxLimit)

GetPost == \E v \in Viewers, p \in PostTargets : Answer(Call("get_post", v, p, NULL))
ListPosts == \E v \in Users, w \in Windows : Answer(Call("list_posts", v, NULL, w))
GetFeed == \E v \in Users : Answer(Call("get_feed", v, NULL, <<0, MaxLimit>>))
GetUserPosts == \E v \in Viewers, u \in Targets :
    Answer(Call("get_user_posts", v, u, <<0, MaxLimit>>))
Search == \E v \in Users, q \in {"", "a"} : Answer(Call("search", v, q, MaxLimit))
UnlikePostAnswered == \E v \in Users, p \in DOMAIN db.posts :
    Answer(Call("unlike_post", v, p, NULL))

\* feed_service.get_feed_posts applied on its own (the viewer may be None)
GetFeedPosts == \E v \in Viewers, w \in Windows :
    /\ response' = [call |-> Call("get_feed_posts", v, NULL, w), status |-> 200,
                    body |-> [items |-> get_feed_posts(db, v, w[1], w[2])]]
    /\ UNCHANGED <<db, push_queue, pc, sess>>

\* users 1 and 2 each published a post of any visibility; 2 may follow 1 and
\* 3 may follow 2; user 3 may have reposted one of the posts
InitRead ==
    /\ \E vis \in [1..2 -> Visibilities], f21 \in BOOLEAN, f32 \in BOOLEAN,
          reposted \in {NULL, 1, 2} :
          db = After(EmptyDb([u \in Users |-> UserRow(FALSE, "everyone")]),
                     <<Call("create_post", 1, NULL, vis[1]),
                       Call("create_post", 2, NULL, vis[2])>>
                     \o (IF f21 THEN <<Call("follow_user", 2, 1, NULL)>> ELSE <<>>)
                     \o (IF f32 THEN <<Call("follow_user", 3, 2, NULL)>> ELSE <<>>)
                     \o (IF reposted # NULL
                         THEN <<Call("repost_post", 3, reposted, NULL)>> ELSE <<>>))
    /\ push_queue = <<>>
    /\ response = NoResponse
    /\ pc = <<>>
    /\ sess = <<>>

NextRead ==
    \/ GetPost
    \/ ListPosts
    \/ GetFeed
    \/ GetFeedPosts
    \/ GetUserPosts
    \/ Search
    \/ UnlikePostAnswered

SpecRead == InitRead /\ [][NextRead]_vars

Range(seq) == {seq[i] : i \in DOMAIN seq}

\* the posts a response hands to its caller, embedded originals included
PostsIn(r) ==
    IF r = NoResponse \/ r.status >= 300 THEN {}
    ELSE CASE r.call.op \in {"get_post", "unlike_post"} -> {r.body}
           [] r.call.op \in {"list_posts", "get_user_posts", "get_feed_posts"} ->
                Range(r.body.items)
           [] r.call.op = "get_feed" ->
                {IF it.type = "post" THEN it.post ELSE it.repost.original_post :
                    it \in Range(r.body.items)}
           [] r.call.op = "search" -> Range(r.body.posts)

\* C7: a private post is returned to nobody but its author, by no read
\* operation: get_post, list_posts, the feed (as a post or as the original of
\* a repost), get_user_posts, search, the body of unlike_post (like_post
\* builds its body the same way).
C7_PrivatePostOnlyToAuthor ==
    \A p \in PostsIn(response) :
        p.visibility = "private" => response.call.user = p.user_id

\* the viewer V may see the post p according to its visibility
Eligible(d, p, V) ==
    \/ d.posts[p].visibility = "public"
    \/ /\ d.posts[p].visibility = "followers_only"
       /\ (V = d.posts[p].user_id \/ <<V, d.posts[p].user_id>> \in d.follows)
    \/ /\ d.posts[p].visibility = "private"
       /\ V = d.posts[p].user_id

\* C8: a post is among the viewer's eligible feed posts (get_feed_posts before
\* pagination) iff it is public, or followers_only and the viewer is the author
\* or follows the author, or private and the viewer is the author; the
\* anonymous viewer gets exactly the public posts.
C8_FeedEligibility ==
    (/\ response # NoResponse
     /\ response.call.op = "get_feed_posts"
     /\ response.call.arg[1] = 0
     /\ response.call.arg[2] >= Len(db.posts))
    => \A p \in DOMAIN db.posts :
          (p \in {x.id : x \in PostsIn(response)}) <=> Eligible(db, p, response.call.user)

\* a viewer was handed a followers_only post of a followed author, not the
\* private post of another author
C8_Witness ==
    /\ response # NoResponse
    /\ response.call.op = "get_feed_posts"
    /\ response.call.arg = <<0, MaxLimit>>
    /\ \E x \in PostsIn(response) :
          x.visibility = "followers_only" /\ x.user_id # response.call.user
    /\ \E p \in DOMAIN db.posts :
          /\ db.posts[p].visibility = "private"
          /\ p \notin {x.id : x \in PostsIn(response)}

----------------------------------------------------------------------------
(* The home feed: posts and reposts merged, one page at a time *)

\* what users 1 and 2 may publish next: a post, or user 2's repost of post 1
FeedCalls ==
    {Call("create_post", a, NULL, v) : a \in {1, 2}, v \in {"public", "private"}}
    \cup {Call("repost_post", 2, 1, NULL)}

GetFeedPage == \E v \in Users, w \in Windows : Answer(Call("get_feed", v, NULL, w))

\* user 1 published a post, then MaxFeedItems - 1 posts and reposts followed
InitFeed ==
    /\ \E v \in {"public", "private"}, calls \in [1..(MaxFeedItems - 1) -> FeedCalls] :
          db = After(EmptyDb([u \in Users |-> UserRow(FALSE, "everyone")]),
                     <<Call("create_post", 1, NULL, v)>> \o calls)
    /\ push_queue = <<>>
    /\ response = NoResponse
    /\ pc = <<>>
    /\ sess = <<>>

NextFeed == GetFeedPage

SpecFeed == InitFeed /\ [][NextFeed]_vars

\* the complete merge for viewer V: every eligible post and every eligible
\* repost, as <<type, id>>, ordered by its own creation time, latest first
FullMerge(d, V) ==
    LET posts == get_feed_posts(d, V, 0, Len(d.posts))
        reposts == get_feed_reposts(d, V, 0, Len(d.reposts))
        keys == {<<"post", posts[i].id>> : i \in DOMAIN posts}
                \cup {<<"repost", reposts[i].id>> : i \in DOMAIN reposts}
        at == [k \in keys |-> IF k[1] = "post" THEN d.posts[k[2]].created_at
                              ELSE d.reposts[k[2]].created_at]
    IN  OrderByDesc(keys, at)

\* <<type, id>> of an item of the feed response
ItemKey(it) == IF it.type = "post" THEN <<"post", it.post.id>>
               ELSE <<"repost", it.repost.id>>

\* the creation time an item is ordered by: the repost's own, not the original's
ItemTime(it) == IF it.type = "post" THEN it.post.created_at ELSE it.repost.created_at

IsFeedResponse == response # NoResponse /\ response.call.op = "get_feed"

\* C9: the page get_feed returns is positions [skip, skip + limit) of the
\* complete merge of all eligible posts and reposts (creation times pairwise
\* distinct), and it has at most limit items.
C9_PageOfCompleteMerge ==
    IsFeedResponse =>
        LET items == response.body.items
            skip == response.call.arg[1]
            limit == response.call.arg[2]
        IN  /\ [i \in DOMAIN items |-> ItemKey(items[i])]
                  = Slice(FullMerge(db, response.call.user), skip, limit)
            /\ Len(items) <= limit

\* a second page of one item, where the two latest eligible items are posts
\* and more than skip + limit items are eligible
C9_Witness ==
    /\ IsFeedResponse
    /\ response.call.arg = <<1, 1>>
    /\ Len(response.body.items) = 1
    /\ LET all == FullMerge(db, response.call.user)
       IN  /\ Len(all) > 2
           /\ all[1][1] = "post" /\ all[2][1] = "post"
           /\ \E i \in DOMAIN all : all[i][1] = "repost"

\* a loaded post created at ts, and user 2's repost of it made at ts_repost
ExamplePost(id, ts) ==
    [id |-> id, user_id |-> 1, visibility |-> "public", likes_count |-> 0,
     comments_count |-> 0, reposts_count |-> 0, created_at |-> ts,
     user |-> [id |-> 1, is_private |-> FALSE, who_can_comment |-> "everyone",
               followers_count |-> 0, following_count |-> 0]]
ExampleRepost(id, ts_repost, post) ==
    [id |-> id, user_id |-> 2, post_id |-> post.id, created_at |-> ts_repost,
     user |-> [id |-> 2, is_private |-> FALSE, who_can_comment |-> "everyone",
               followers_count |-> 0, following_count |-> 0],
     post |-> post]

\* C10: the merged feed is non-increasing in ordering time from first to last
\* item, a post ordered by its created_at and a repost by its own created_at;
\* posts at 10, 8, 5 and a repost (of the post at 5) made at 9 come out as
\* 10, 9, 8, 5.
C10_FeedOrderedByOwnTime ==
    /\ IsFeedResponse =>
          \A i, j \in DOMAIN response.body.items :
              i < j => ItemTime(response.body.items[i]) >= ItemTime(response.body.items[j])
    /\ LET feed == build_unified_feed(
                       <<ExamplePost(1, 10), ExamplePost(2, 8), ExamplePost(3, 5)>>,
                       <<ExampleRepost(1, 9, ExamplePost(3, 5))>>, {}, {}, 0, 4)
       IN  [i \in DOMAIN feed |-> ItemTime(feed[i])] = <<10, 9, 8, 5>>

\* a repost sits right above a post that is older than the repost and newer
\* than the repost's original
C10_Witness ==
    /\ IsFeedResponse
    /\ \E i \in DOMAIN response.body.items :
          /\ i + 1 \in DOMAIN response.body.items
          /\ response.body.items[i].type = "repost"
          /\ response.body.items[i + 1].type = "post"
          /\ response.body.items[i].repost.original_post.created_at
                < response.body.items[i + 1].post.created_at

----------------------------------------------------------------------------
(* The inbox: notifications marked as read *)

\* the follows that filled the inboxes
InboxCalls == {Call("follow_user", u, t, NULL) : u \in Users, t \in Users \ {1}}

MarkOneAsRead == \E u \in Users, n \in 1..(Len(db.notifications) + 1) :
    Answer(Call("mark_one_as_read", u, n, NULL))
MarkAllAsRead == \E u \in Users : Answer(Call("mark_all_as_read", u, NULL, NULL))
UnreadCount == \E u \in Users : Answer(Call("unread_count", u, NULL, NULL))

\* MaxInbox follow requests were served between public users
InitInbox ==
    /\ \E calls \in [1..MaxInbox -> InboxCalls] :
          db = After(EmptyDb([u \in Users |-> UserRow(FALSE, "everyone")]), calls)
    /\ push_queue = <<>>
    /\ response = NoResponse
    /\ pc = <<>>
    /\ sess = <<>>

NextInbox ==
    \/ MarkOneAsRead
    \/ MarkAllAsRead
    \/ UnreadCount

SpecInbox == InitInbox /\ [][NextInbox]_vars

\* C17: mark_one_read(U, n) sets is_read of n and answers true iff n exists,
\* belongs to U and is unread; otherwise (another user's notification, one
\* already read, none with that id) it answers false and no notification's
\* is_read changes.
C17_MarkOneRead ==
    [][response'.call.op = "mark_one_as_read" =>
          LET U == response'.call.user
              n == response'.call.target
              hit == /\ n \in DOMAIN db.notifications
                     /\ db.notifications[n].user_id = U
                     /\ ~db.notifications[n].is_read
          IN  /\ response'.status = 200
              /\ response'.body = [updated |-> hit]
              /\ db' = IF hit THEN [db EXCEPT !.notifications[n].is_read = TRUE]
                               ELSE db]_vars

\* a user tried to mark a notification of another user: the answer is false
\* and it is still unread, while a notification marked by its owner is read
C17_Witness ==
    /\ response # NoResponse
    /\ response.call.op = "mark_one_as_read"
    /\ response.body = [updated |-> FALSE]
    /\ response.call.target \in DOMAIN db.notifications
    /\ db.notifications[response.call.target].user_id # response.call.user
    /\ ~db.notifications[response.call.target].is_read
    /\ \E m \in DOMAIN db.notifications : db.notifications[m].is_read

\* C28: mark_all_read(U) sets is_read on exactly the notifications of U that
\* were unread and answers their number; the notifications of every other
\* user stay as they are; right afterwards the unread count of U is 0 and a
\* second mark_all_read(U) answers 0.
C28_MarkAllRead ==
    [][response'.call.op = "mark_all_as_read" =>
          LET U == response'.call.user
              unread == {n \in DOMAIN db.notifications :
                            db.notifications[n].user_id = U /\ ~db.notifications[n].is_read}
          IN  /\ response'.status = 200
              /\ response'.body = [updated |-> Cardinality(unread)]
              /\ db' = [db EXCEPT !.notifications =
                           [n \in DOMAIN @ |->
                               IF n \in unread THEN [@[n] EXCEPT !.is_read = TRUE]
                               ELSE @[n]]]
              /\ Outcome(db', Call("unread_count", U, NULL, NULL)).resp.body = [count |-> 0]
              /\ Outcome(db', response'.call).resp.body = [updated |-> 0]
              /\ Outcome(db', response'.call).db = db']_vars

\* a user marked two notifications at once while a third one, of another
\* user, is still unread
C28_Witness ==
    /\ response # NoResponse
    /\ response.call.op = "mark_all_as_read"
    /\ response.body = [updated |-> 2]
    /\ get_unread_count(db, response.call.user) = 0
    /\ \E n \in DOMAIN db.notifications :
          db.notifications[n].user_id # response.call.user /\ ~db.notifications[n].is_read

----------------------------------------------------------------------------
(* Private profiles: what a viewer gets to see of user 1 *)

GetUser == \E v \in Viewers, u \in Targets : Answer(Call("get_user", v, u, NULL))

\* user 1, verified or not, with or without a display name, published two
\* posts; user 2 may have followed 1; then 1 may have made the profile
\* private, and user 3 may have asked to follow 1 after that
InitProfile ==
    /\ \E verified \in BOOLEAN, display_name \in {NULL, DisplayName(1)},
          vis \in [1..2 -> Visibilities], f21 \in BOOLEAN, priv \in BOOLEAN,
          f31 \in BOOLEAN :
          db = After(EmptyDb([u \in Users |->
                                IF u = 1 THEN UserProfile(u, FALSE, display_name, verified)
                                ELSE UserProfile(u, FALSE, DisplayName(u), FALSE)]),
                     <<Call("create_post", 1, NULL, vis[1]),
                       Call("create_post", 1, NULL, vis[2])>>
                     \o (IF f21 THEN <<Call("follow_user", 2, 1, NULL)>> ELSE <<>>)
                     \o (IF priv THEN <<Call("update_me", 1, NULL, <<TRUE>>)>> ELSE <<>>)
                     \o (IF f31 THEN <<Call("follow_user", 3, 1, NULL)>> ELSE <<>>))
    /\ push_queue = <<>>
    /\ response = NoResponse
    /\ pc = <<>>
    /\ sess = <<>>

NextProfile ==
    \/ GetUser
    \/ GetUserPosts
    \/ GetPost
    \/ ListPosts
    \/ GetFeed
    \/ Search

SpecProfile == InitProfile /\ [][NextProfile]_vars

\* the profile of O is closed to the viewer V (NULL: no credentials)
Closed(d, O, V) ==
    /\ d.users[O].is_private
    /\ V = NULL \/ (V # O /\ <<V, O>> \notin d.follows)

\* C18: get_user on a private user O, for a viewer that is anonymous or is
\* neither O nor a follower of O, returns followers_count = 0,
\* following_count = 0, is_verified = false, no bio, no avatar and the
\* username as display_name; for O, for a follower of O, and for every viewer
\* when O is not private, it returns the stored values.
C18_PrivateProfileMasked ==
    (/\ response # NoResponse
     /\ response.call.op = "get_user"
     /\ response.call.target \in Users)
    => LET O == response.call.target
           user == db.users[O]
           body == response.body
       IN  /\ response.status = 200
           /\ IF Closed(db, O, response.call.user)
              THEN /\ body.followers_count = 0 /\ body.following_count = 0
                   /\ body.is_verified = FALSE
                   /\ body.bio = NULL /\ body.avatar_url = NULL
                   /\ body.display_name = user.username
              ELSE /\ body.followers_count = user.followers_count
                   /\ body.following_count = user.following_count
                   /\ body.is_verified = user.is_verified
                   /\ body.bio = user.bio /\ body.avatar_url = user.avatar_url
                   /\ body.display_name = user.display_name

\* a logged-in user who does not follow the private, verified user 1 (who has
\* a follower and a display name) asked for the profile and got it masked
C18_Witness ==
    /\ response # NoResponse
    /\ response.call.op = "get_user"
    /\ response.call.target = 1
    /\ response.call.user \in Users
    /\ Closed(db, 1, response.call.user)
    /\ db.users[1].is_verified /\ db.users[1].followers_count = 1
    /\ db.users[1].display_name # NULL
    /\ response.body.followers_count = 0 /\ ~response.body.is_verified

\* the store d with other values in the two counters of user O
Recounted(d, O) ==
    [d EXCEPT !.users[O].followers_count = @ + 1, !.users[O].following_count = @ + 1]

\* the read requests the viewer V can send
ReadCalls(d, V) ==
    {Call("get_user", V, u, NULL) : u \in DOMAIN d.users}
    \cup {Call("get_user_posts", V, u, <<0, MaxLimit>>) : u \in DOMAIN d.users}
    \cup {Call("get_post", V, p, NULL) : p \in DOMAIN d.posts}
    \cup (IF V = NULL THEN {}
          ELSE {Call("list_posts", V, NULL, <<0, MaxLimit>>),
                Call("get_feed", V, NULL, <<0, MaxLimit>>),
                Call("search", V, "a", MaxLimit)})

\* C19: for a private user O and a viewer V that is neither O nor a follower
\* of O, no read operation answers V differently in two stores that differ
\* only in followers_count and following_count of O.
C19_PrivateCountersNeverLeak ==
    \A O \in Users, V \in Viewers :
        Closed(db, O, V) =>
            \A call \in ReadCalls(db, V) :
                Outcome(db, call).resp = Outcome(Recounted(db, O), call).resp

\* C20: get_user_posts for a private author B returns the empty list to every
\* viewer that is anonymous or is neither B nor a follower of B; for a
\* permitted viewer, and for an author who is not private, it returns exactly
\* B's posts that are public, or followers_only with the viewer being B or a
\* follower of B, or private with the viewer being B.
C20_UserPostsByProfileAndVisibility ==
    (/\ response # NoResponse
     /\ response.call.op = "get_user_posts"
     /\ response.call.target \in Users)
    => LET B == response.call.target
           V == response.call.user
           items == response.body.items
           shown == {items[i].id : i \in DOMAIN items}
       IN  /\ response.status = 200
           /\ Len(items) = Cardinality(shown)
           /\ shown = IF Closed(db, B, V) THEN {}
                      ELSE {p \in DOMAIN db.posts :
                               db.posts[p].user_id = B /\ Eligible(db, p, V)}

\* the private user 1 has a public post; a viewer without credentials got
\* the empty list and so does a logged-in user who does not follow 1, while
\* the follower 2 is shown the post
C20_Witness ==
    /\ response # NoResponse
    /\ response.call.op = "get_user_posts"
    /\ response.call = Call("get_user_posts", NULL, 1, <<0, MaxLimit>>)
    /\ db.users[1].is_private
    /\ \E p \in DOMAIN db.posts : db.posts[p].visibility = "public"
    /\ response.body.items = <<>>
    /\ <<2, 1>> \in db.follows
    /\ Outcome(db, Call("get_user_posts", 2, 1, <<0, MaxLimit>>)).resp.body.items # <<>>
    /\ Outcome(db, Call("get_user_posts", 3, 1, <<0, MaxLimit>>)).resp.body.items = <<>>

----------------------------------------------------------------------------
(* Comments and reposts submitted one at a time; the authors may have       *)
(* closed their content to comments                                         *)

ClipTargets == DOMAIN db.clips \cup {Len(db.clips) + 1}

SubmitPostComment == \E u \in Users, p \in PostTargets, parent \in Parents :
    /\ Len(db.comments) < MaxComments
    /\ Serve(create_post_comment(db, get_current_user(db, u), p, parent))
SubmitClipComment == \E u \in Users, c \in ClipTargets, parent \in Parents :
    /\ Len(db.comments) < MaxComments
    /\ Serve(create_clip_comment(db, get_current_user(db, u), c, parent))
RepostPost == \E u \in Users, p \in PostTargets :
    /\ Len(db.reposts) < MaxReposts
    /\ Serve(repost_post(db, get_current_user(db, u), p))

\* user 1 has a post and user 2 a clip; each of them lets everyone, the
\* people they follow, or no one comment
InitSubmit ==
    /\ \E wcc \in [{1, 2} -> WhoCanComment] :
          db = After(EmptyDb([u \in Users |->
                                UserRow(FALSE, IF u \in {1, 2} THEN wcc[u] ELSE "everyone")]),
                     <<Call("create_post", 1, NULL, "public"),
                       Call("create_clip", 2, NULL, NULL)>>)
    /\ push_queue = <<>>
    /\ response = NoResponse
    /\ pc = <<>>
    /\ sess = <<>>

NextSubmit ==
    \/ SubmitPostComment
    \/ SubmitClipComment
    \/ RepostPost

SpecSubmit == InitSubmit /\ [][NextSubmit]_vars

\* C26: create_post_comment and create_clip_comment by a user other than the
\* author of the post or clip, when the author's who_can_comment is no_one,
\* fail with 403 and leave the store as it is: no Comment row, comments_count
\* unchanged, no Notification row and no push job.
C26_CommentsDisabledForbidden ==
    \A u \in Users, parent \in Parents :
        /\ \A p \in DOMAIN db.posts :
              (db.users[db.posts[p].user_id].who_can_comment = "no_one"
               /\ db.posts[p].user_id # u)
              => LET out == Outcome(db, Call("create_post_comment", u, p, parent))
                 IN  out.resp.status = 403 /\ out.db = db /\ out.push = <<>>
        /\ \A c \in DOMAIN db.clips :
              (db.users[db.clips[c].user_id].who_can_comment = "no_one"
               /\ db.clips[c].user_id # u)
              => LET out == Outcome(db, Call("create_clip_comment", u, c, parent))
                 IN  out.resp.status = 403 /\ out.db = db /\ out.push = <<>>

\* user 1 closed the post to comments and commented on it; user 2, whose
\* clip is open, is refused on the post, also for a reply to that comment,
\* while user 1 may comment on the clip of user 2
C26_Witness ==
    /\ db.users[1].who_can_comment = "no_one"
    /\ db.users[2].who_can_comment = "everyone"
    /\ \E c \in DOMAIN db.comments :
          /\ db.comments[c].user_id = 1 /\ db.comments[c].post_id = 1
          /\ Outcome(db, Call("create_post_comment", 2, 1, c)).resp.status = 403
    /\ Outcome(db, Call("create_post_comment", 2, 1, NULL)).resp.status = 403
    /\ Outcome(db, Call("create_clip_comment", 1, 1, NULL)).resp.status = 201

comments_of(d, p) == {c \in DOMAIN d.comments : d.comments[c].post_id = p}
reposts_of(d, p) == {i \in DOMAIN d.reposts : d.reposts[i].post_id = p}

\* C27: every create_post_comment that succeeds adds exactly one Comment row
\* and raises comments_count of the post by exactly 1, every repost_post that
\* succeeds adds exactly one Repost row and raises reposts_count by exactly 1,
\* also when the same user repeats the same submission; so comments_count and
\* reposts_count are the numbers of Comment and Repost rows of the post; and a
\* repost of a post that does not exist fails with 404 and changes nothing.
C27_EverySubmissionCounts ==
    /\ \A p \in DOMAIN db.posts :
          /\ db.posts[p].comments_count = Cardinality(comments_of(db, p))
          /\ db.posts[p].reposts_count = Cardinality(reposts_of(db, p))
    /\ \A u \in Users, p \in PostTargets :
          /\ \A parent \in Parents :
                LET out == Outcome(db, Call("create_post_comment", u, p, parent))
                IN  IF out.resp.status < 300
                    THEN /\ out.db.comments =
                               Append(db.comments, CommentRow(u, p, NULL, parent))
                         /\ out.db.posts[p].comments_count = db.posts[p].comments_count + 1
                         /\ out.db.reposts = db.reposts
                    ELSE out.db = db
          /\ LET out == Outcome(db, Call("repost_post", u, p, NULL))
             IN  IF p \notin DOMAIN db.posts
                 THEN out.resp.status = 404 /\ out.db = db
                 ELSE /\ out.resp.status = 201
                      /\ Len(out.db.reposts) = Len(db.reposts) + 1
                      /\ out.db.reposts[Len(out.db.reposts)].user_id = u
                      /\ out.db.reposts[Len(out.db.reposts)].post_id = p
                      /\ out.db.posts[p].reposts_count = db.posts[p].reposts_count + 1
                      /\ out.db.comments = db.comments

\* user 3 sent the same comment twice and reposted the post twice: two Comment
\* rows and two Repost rows, each counted
C27_Witness ==
    /\ db.comments = <<CommentRow(3, 1, NULL, NULL), CommentRow(3, 1, NULL, NULL)>>
    /\ Len(db.reposts) = 2
    /\ \A i \in DOMAIN db.reposts : db.reposts[i].user_id = 3 /\ db.reposts[i].post_id = 1
    /\ db.posts[1].comments_count = 2 /\ db.posts[1].reposts_count = 2
====
